---- MODULE Spec2Model ----
(***************************************************************************)
(* Model of the window / backbuffer core of rtc (src/src/win32/main.cc).   *)
(*                                                                         *)
(* The program is single threaded.  wWinMain creates one window, shows it  *)
(* and then runs the presentation loop: drain the message queue (every     *)
(* message is dispatched to WSI_WndProc, which calls one WSI_WndProc_WM_*  *)
(* handler), test the Destroyed event, present, sleep.  Several Win32      *)
(* calls made by the handlers (SetWindowPos, ShowWindow) send further      *)
(* messages to the window procedure before they return; those nested       *)
(* dispatches are part of the handler that made the call.                  *)
(*                                                                         *)
(* A "world" is the record [ws, win, heap, mon, sysDpi, plan, ...]: the    *)
(* WSI_WINDOW_STATE, the window as the window manager holds it, the        *)
(* process heap, the DPI of the monitors, the outcomes of the next         *)
(* VirtualAlloc calls, and a log of what the current dispatch did.         *)
(* Handlers are operators from worlds to worlds; an action applies one     *)
(* top-level dispatch and stores the result.                               *)
(***************************************************************************)
EXTENDS Integers, Sequences, FiniteSets, TLC

VARIABLES ws, win, desk, heap, pc, last, hist

vars == <<ws, win, desk, heap, pc, last, hist>>

(***************************************************************************)
(* Program constants                                                       *)
(***************************************************************************)
USER_DEFAULT_SCREEN_DPI == 96
InitialClientX == 800
InitialClientY == 600
BytesPerPixel == 4
BitCount == 32
NULL == 0

(***************************************************************************)
(* Environment: the desktop.  Two monitors side by side, the primary at    *)
(* the origin; window decoration metrics as AdjustWindowRectEx reports     *)
(* them for a captioned, sizeable window.                                  *)
(***************************************************************************)
MonitorW == 1920
MonitorH == 1080
TaskbarH == 40
FrameX == 8
FrameY == 8
CaptionH == 23
NumAddrs == 2

(* The number of messages the drain dispatches in one run of the program.  *)
MaxMsgs == 3

Monitors == {1, 2}
DpiValues == {96, 144}
Addrs == 1..NumAddrs

Rect(l, t, r, b) == [left |-> l, top |-> t, right |-> r, bottom |-> b]
ZeroRect == Rect(0, 0, 0, 0)
RectW(rc) == rc.right - rc.left
RectH(rc) == rc.bottom - rc.top

rcMonitor(m) == Rect((m - 1) * MonitorW, 0, m * MonitorW, MonitorH)
rcWork(m) == Rect((m - 1) * MonitorW, 0, m * MonitorW, MonitorH - TaskbarH)

(***************************************************************************)
(* Fixed-width arithmetic.  The model checker's integers are 32 bits wide  *)
(* and signed.  Every dimension, coordinate, DPI and byte count of the     *)
(* model lies in 0 .. 2^31 - 1 (the largest is the byte count of a buffer  *)
(* of twice the monitor size), where the casts to uint32_t, LONG, int32_t  *)
(* and size_t keep the value.                                              *)
(***************************************************************************)
U32(x) == x
I32(x) == x

(* Geometry converter: the two macros, on uint32_t operands.  A zero DPI   *)
(* divides by zero; the model gives 0 there.                               *)
PhysicalToLogicalPixels(dim, dpi) ==
    IF dpi = 0 THEN 0 ELSE U32(dim * USER_DEFAULT_SCREEN_DPI) \div dpi

LogicalToPhysicalPixels(dim, dpi) ==
    U32(dim * dpi) \div USER_DEFAULT_SCREEN_DPI

(***************************************************************************)
(* Style words, as sets of bits.                                           *)
(***************************************************************************)
WS_OVERLAPPEDWINDOW == "WS_OVERLAPPEDWINDOW"
WS_CLIPCHILDREN == "WS_CLIPCHILDREN"
WS_CLIPSIBLINGS == "WS_CLIPSIBLINGS"
WS_POPUP == "WS_POPUP"
WS_VISIBLE == "WS_VISIBLE"
WS_MINIMIZE == "WS_MINIMIZE"
WS_MAXIMIZE == "WS_MAXIMIZE"

InitialStyle == {WS_OVERLAPPEDWINDOW, WS_CLIPCHILDREN, WS_CLIPSIBLINGS}
InitialStyleEx == {}

(* WSI_WINDOW_STATUS_FLAGS / WSI_WINDOW_EVENT_FLAGS as sets of tags.       *)
STATUS_CREATED == "Created"
STATUS_ACTIVE == "Active"
STATUS_VISIBLE == "Visible"
STATUS_FULLSCREEN == "Fullscreen"
EVENT_CREATED == "EvCreated"
EVENT_DESTROYED == "EvDestroyed"
EVENT_SHOWN == "EvShown"
EVENT_HIDDEN == "EvHidden"
EVENT_ACTIVATED == "EvActivated"
EVENT_DEACTIVATED == "EvDeactivated"
EVENT_SIZE_CHANGED == "EvSizeChanged"
EVENT_POSITION_CHANGED == "EvPositionChanged"

(***************************************************************************)
(* The heap.  heap.size[a] is the committed size of the live allocation at *)
(* address a, 0 when a is free.  heap.bad records a release of an address  *)
(* that is not live (double free) or that is still installed.              *)
(***************************************************************************)
EmptyHeap == [size |-> [a \in Addrs |-> 0], bad |-> FALSE]
Live(h) == {a \in Addrs : h.size[a] # 0}

(* VirtualAlloc(nullptr, n, MEM_RESERVE|MEM_COMMIT, PAGE_READWRITE): fails *)
(* for n = 0, when the planned outcome of this call is failure, or when    *)
(* the address space is used up; otherwise a free address.                 *)
VirtualAlloc(w, n) ==
    LET ok == IF w.plan = <<>> THEN TRUE ELSE Head(w.plan)
        rest == IF w.plan = <<>> THEN <<>> ELSE Tail(w.plan)
        free == Addrs \ Live(w.heap)
    IN  IF n = 0 \/ ~ok \/ free = {}
        THEN [w |-> [w EXCEPT !.plan = rest, !.failed = TRUE,
                              !.trace = Append(@, "alloc-fail")],
              mem |-> NULL]
        ELSE LET a == CHOOSE x \in free : \A y \in free : x <= y
             IN  [w |-> [w EXCEPT !.plan = rest,
                                  !.heap.size[a] = n,
                                  !.trace = Append(@, "alloc")],
                  mem |-> a]

(* VirtualFree(p, 0, MEM_RELEASE) *)
VirtualFree(w, p) ==
    [w EXCEPT !.heap.size = IF p \in Addrs THEN [@ EXCEPT ![p] = 0] ELSE @,
              !.heap.bad = @ \/ p \notin Live(w.heap) \/ p = w.ws.BackBufferMemory,
              !.trace = Append(@, "free")]

(***************************************************************************)
(* Backbuffer allocator                                                    *)
(***************************************************************************)
BitmapHeader(x, y) ==
    [biWidth |-> I32(x), biHeight |-> -I32(y), biBitCount |-> BitCount]
ZeroHeader == [biWidth |-> 0, biHeight |-> 0, biBitCount |-> 0]

(* A variant that never releases the previous buffer. *)
InstallBackBuffer_Leaks(a, prev_mem, physical_x_px, physical_y_px) ==
    [a.w EXCEPT
       !.ws.BackBufferMemory = a.mem,
       !.ws.BackBufferWidth  = physical_x_px,
       !.ws.BackBufferHeight = physical_y_px,
       !.ws.BackBufferStride = U32(physical_x_px * BytesPerPixel),
       !.trace = Append(@, "install"),
       !.ret = 0]

(* Lines 175-182: install the new buffer, then release the previous one.   *)
InstallBackBuffer(a, prev_mem, physical_x_px, physical_y_px) ==
    LET w2 == [a.w EXCEPT
                 !.ws.BackBufferMemory = a.mem,
                 !.ws.BackBufferWidth  = physical_x_px,
                 !.ws.BackBufferHeight = physical_y_px,
                 !.ws.BackBufferStride = U32(physical_x_px * BytesPerPixel),
                 !.trace = Append(@, "install")]
    IN  IF prev_mem # NULL
        THEN [VirtualFree(w2, prev_mem) EXCEPT !.ret = 0]
        ELSE [w2 EXCEPT !.ret = 0]

(* A variant that forgets the previous buffer when the allocation fails. *)
AfterVirtualAlloc_DropsBuffer(a, prev_mem, physical_x_px, physical_y_px) ==
    IF a.mem = NULL
    THEN [a.w EXCEPT !.ws.BackBufferMemory = NULL,
                     !.ws.BackBufferWidth = 0,
                     !.ws.BackBufferHeight = 0,
                     !.ret = -1]
    ELSE InstallBackBuffer(a, prev_mem, physical_x_px, physical_y_px)

(* Lines 171-174: the allocation failed, or it did not. *)
AfterVirtualAlloc(a, prev_mem, physical_x_px, physical_y_px) ==
    IF a.mem = NULL
    THEN [a.w EXCEPT !.ret = -1]
    ELSE InstallBackBuffer(a, prev_mem, physical_x_px, physical_y_px)

(* A variant that commits one byte per pixel. *)
ResizeBackBuffer_BytePerPixel(w, physical_x_px, physical_y_px) ==
    IF /\ physical_x_px = w.ws.BackBufferWidth
       /\ physical_y_px = w.ws.BackBufferHeight
       /\ w.ws.BackBufferMemory # NULL
    THEN [w EXCEPT !.ret = 0, !.trace = Append(@, "resize-noop")]
    ELSE AfterVirtualAlloc(
             VirtualAlloc([w EXCEPT !.ws.BackBufferInfo =
                               BitmapHeader(physical_x_px, physical_y_px)],
                          physical_x_px * physical_y_px),
             w.ws.BackBufferMemory, physical_x_px, physical_y_px)

(* A variant without the early return of lines 159-162. *)
ResizeBackBuffer_AlwaysAllocates(w, physical_x_px, physical_y_px) ==
    AfterVirtualAlloc(
        VirtualAlloc([w EXCEPT !.ws.BackBufferInfo =
                          BitmapHeader(physical_x_px, physical_y_px)],
                     physical_x_px * physical_y_px * BytesPerPixel),
        w.ws.BackBufferMemory, physical_x_px, physical_y_px)

ResizeBackBuffer(w, physical_x_px, physical_y_px) ==
    LET prev_mem  == w.ws.BackBufferMemory
        prev_x_px == w.ws.BackBufferWidth
        prev_y_px == w.ws.BackBufferHeight
        num_bytes == physical_x_px * physical_y_px * BytesPerPixel
    IN  IF physical_x_px = prev_x_px /\ physical_y_px = prev_y_px /\ prev_mem # NULL
        THEN [w EXCEPT !.ret = 0, !.trace = Append(@, "resize-noop")]
        ELSE AfterVirtualAlloc(
                 VirtualAlloc([w EXCEPT !.ws.BackBufferInfo =
                                   BitmapHeader(physical_x_px, physical_y_px)],
                              num_bytes),
                 prev_mem, physical_x_px, physical_y_px)

(* A variant that passes the logical client size as the destination. *)
PresentBackBuffer_Logical(w, via) ==
    [w EXCEPT !.blits = Append(@,
        [via   |-> via,
         dst_w |-> I32(w.ws.ClientSizeX),
         dst_h |-> I32(w.ws.ClientSizeY),
         src_w |-> I32(w.ws.BackBufferWidth),
         src_h |-> I32(w.ws.BackBufferHeight),
         mem   |-> w.ws.BackBufferMemory,
         hdr   |-> w.ws.BackBufferInfo])]

(* PresentBackBuffer: the StretchDIBits call, logged. *)
PresentBackBuffer(w, via) ==
    [w EXCEPT !.blits = Append(@,
        [via   |-> via,
         dst_w |-> I32(LogicalToPhysicalPixels(w.ws.ClientSizeX, w.ws.OutputDpiX)),
         dst_h |-> I32(LogicalToPhysicalPixels(w.ws.ClientSizeY, w.ws.OutputDpiY)),
         src_w |-> I32(w.ws.BackBufferWidth),
         src_h |-> I32(w.ws.BackBufferHeight),
         mem   |-> w.ws.BackBufferMemory,
         hdr   |-> w.ws.BackBufferInfo])]

(***************************************************************************)
(* The window as the window manager holds it.  style/exStyle are the       *)
(* GWL_STYLE/GWL_EXSTYLE words, rect the outer rectangle in physical       *)
(* pixels, client the client area (screen coordinates) as last computed    *)
(* from rect and style, normalRect the restored position of the window     *)
(* placement, assoc the GWLP_USERDATA association, active the activation.  *)
(***************************************************************************)
Decorated(style) == WS_OVERLAPPEDWINDOW \in style

(* AdjustWindowRectEx(&rc, style, FALSE, ex_style) *)
AdjustWindowRectEx(rc, style, ex_style) ==
    IF Decorated(style)
    THEN Rect(rc.left - FrameX, rc.top - FrameY - CaptionH,
              rc.right + FrameX, rc.bottom + FrameY)
    ELSE rc

Max0(x) == IF x < 0 THEN 0 ELSE x

(* The client area the window manager computes for an outer rectangle.     *)
ComputeClient(rc, style) ==
    IF WS_MINIMIZE \in style
    THEN Rect(rc.left, rc.top, rc.left, rc.top)
    ELSE IF Decorated(style)
    THEN Rect(rc.left + FrameX, rc.top + FrameY + CaptionH,
              rc.left + FrameX + Max0(RectW(rc) - 2 * FrameX),
              rc.top + FrameY + CaptionH + Max0(RectH(rc) - 2 * FrameY - CaptionH))
    ELSE rc

GetWindowRect(w) == w.win.rect
(* A variant that reports the size of the outer rectangle. *)
GetClientRect_Outer(w) == Rect(0, 0, RectW(w.win.rect), RectH(w.win.rect))

GetClientRect(w) == Rect(0, 0, RectW(w.win.client), RectH(w.win.client))

(* MonitorFromWindow(hwnd, MONITOR_DEFAULTTONEAREST): the monitor holding  *)
(* the centre of the window, the nearest one when it is off the desktop.   *)
MonitorFromWindow(w) ==
    LET cx == (w.win.rect.left + w.win.rect.right) \div 2
    IN  IF cx < MonitorW THEN 1 ELSE 2

(* The GetDpiForMonitor entry of the dispatch table, as every handler      *)
(* calls it: dpi_x = dpi_y = USER_DEFAULT_SCREEN_DPI, then the call with   *)
(* MDT_EFFECTIVE_DPI.  The stub stores what GetDeviceCaps(LOGPIXELSX/Y)    *)
(* returns for the screen DC, w.sysDpi, which is 0 when the density is not *)
(* available.  The Shcore entry point stores the monitor's DPI, w.mon; a   *)
(* w.mon of 0 stands for a failing call, which stores nothing.             *)
GetDpiForMonitor_Stub(w, monitor) == [x |-> w.sysDpi, y |-> w.sysDpi]

GetDpiForMonitor(w, monitor) ==
    IF w.ws.Win32Api.GetDpiForMonitor = "stub"
    THEN GetDpiForMonitor_Stub(w, monitor)
    ELSE IF w.mon[monitor] = 0
    THEN [x |-> USER_DEFAULT_SCREEN_DPI, y |-> USER_DEFAULT_SCREEN_DPI]
    ELSE [x |-> w.mon[monitor], y |-> w.mon[monitor]]

(* QueryMonitorGeometry *)
QueryMonitorGeometry(monitor) ==
    LET m == IF monitor = NULL THEN 1 ELSE monitor
    IN  [rcMonitor |-> rcMonitor(m), rcWork |-> rcWork(m)]

(* SetWindowLong(hwnd, GWL_STYLE / GWL_EXSTYLE, value) *)
SetWindowLongStyle(w, style) == [w EXCEPT !.win.style = style]
SetWindowLongExStyle(w, ex_style) == [w EXCEPT !.win.exStyle = ex_style]

WORD(x) == x % 65536
SizeLParam(client) == [lo |-> WORD(RectW(client)), hi |-> WORD(RectH(client))]
SizeCode(style) ==
    IF WS_MINIMIZE \in style THEN "SIZE_MINIMIZED"
    ELSE IF WS_MAXIMIZE \in style THEN "SIZE_MAXIMIZED"
    ELSE "SIZE_RESTORED"

DefWindowProc(w, msg, wparam, lparam) == [w EXCEPT !.ret = 0]

(***************************************************************************)
(* Every call of ResizeBackBuffer made by a handler is logged with the     *)
(* state it found and the state it left, so that the contract of the       *)
(* allocator can be stated call by call.                                   *)
(***************************************************************************)
BackBuffer(s) ==
    [Base |-> s.BackBufferMemory, Width |-> s.BackBufferWidth,
     Height |-> s.BackBufferHeight, Stride |-> s.BackBufferStride]

LogCall(w, r, x, y) ==
    [r EXCEPT !.calls = Append(@,
        [x |-> x, y |-> y, ret |-> r.ret,
         pre |-> BackBuffer(w.ws), post |-> BackBuffer(r.ws),
         preInfo |-> w.ws.BackBufferInfo, postInfo |-> r.ws.BackBufferInfo,
         preLive |-> Live(w.heap), postLive |-> Live(r.heap),
         postSize |-> r.heap.size,
         ops |-> SubSeq(r.trace, Len(w.trace) + 1, Len(r.trace))])]

Call_ResizeBackBuffer(w, x, y) == LogCall(w, ResizeBackBuffer(w, x, y), x, y)

Enter(w, name) == [w EXCEPT !.trace = Append(@, name)]

(* Every run of the window procedure is logged as well: the message, the   *)
(* WSI_WINDOW_STATE and the window it found and left, the event tags it    *)
(* OR-ed or wrote into EventFlags (its nested dispatches included), and    *)
(* what it did to the heap.  r is the outcome of the run started from w    *)
(* with an empty set of raised tags.                                       *)
LogHandler(w, r, msg, wparam, lparam) ==
    [r EXCEPT !.raised = w.raised \cup @,
              !.hlog = Append(@,
                  [msg |-> msg, wparam |-> wparam, lparam |-> lparam,
                   pre |-> w.ws, post |-> r.ws, win |-> w.win, after |-> r.win,
                   mon |-> w.mon, sysDpi |-> w.sysDpi,
                   raised |-> r.raised, ret |-> r.ret,
                   ops |-> SubSeq(r.trace, Len(w.trace) + 1, Len(r.trace))])]

Run(w) == [w EXCEPT !.raised = {}]

(***************************************************************************)
(* Window state machine, first part: the handlers of the messages that the *)
(* window manager sends while a call into it is in progress.  None of them *)
(* calls back into the window manager.                                     *)
(***************************************************************************)
(* A variant that tests the minimized indicator before the active one. *)
WSI_WndProc_WM_ACTIVATE_MinimizedFirst(w0, wparam, lparam) ==
    LET w  == Enter(w0, "WM_ACTIVATE")
        w1 == IF wparam.minimized
              THEN [w EXCEPT !.ws.StatusFlags = @ \ {STATUS_VISIBLE},
                             !.ws.EventFlags  = @ \cup {EVENT_HIDDEN},
                             !.raised         = @ \cup {EVENT_HIDDEN}]
              ELSE w
        w2 == IF wparam.active # 0
              THEN [w1 EXCEPT !.ws.StatusFlags = @ \cup {STATUS_ACTIVE, STATUS_VISIBLE},
                              !.ws.EventFlags  = @ \cup {EVENT_ACTIVATED},
                              !.raised         = @ \cup {EVENT_ACTIVATED}]
              ELSE [w1 EXCEPT !.ws.StatusFlags = @ \ {STATUS_ACTIVE},
                              !.ws.EventFlags  = @ \cup {EVENT_DEACTIVATED},
                              !.raised         = @ \cup {EVENT_DEACTIVATED}]
    IN  DefWindowProc(w2, "WM_ACTIVATE", wparam, lparam)

WSI_WndProc_WM_ACTIVATE(w0, wparam, lparam) ==
    LET w  == Enter(w0, "WM_ACTIVATE")
        w1 == IF wparam.active # 0
              THEN [w EXCEPT !.ws.StatusFlags = @ \cup {STATUS_ACTIVE, STATUS_VISIBLE},
                             !.ws.EventFlags  = @ \cup {EVENT_ACTIVATED},
                             !.raised         = @ \cup {EVENT_ACTIVATED}]
              ELSE [w EXCEPT !.ws.StatusFlags = @ \ {STATUS_ACTIVE},
                             !.ws.EventFlags  = @ \cup {EVENT_DEACTIVATED},
                             !.raised         = @ \cup {EVENT_DEACTIVATED}]
        w2 == IF wparam.minimized
              THEN [w1 EXCEPT !.ws.StatusFlags = @ \ {STATUS_VISIBLE},
                              !.ws.EventFlags  = @ \cup {EVENT_HIDDEN},
                              !.raised         = @ \cup {EVENT_HIDDEN}]
              ELSE w1
    IN  DefWindowProc(w2, "WM_ACTIVATE", wparam, lparam)

(* A variant that writes PositionChanged over the pending events. *)
WSI_WndProc_WM_MOVE_Assigns(w0, wparam, lparam) ==
    LET w       == Enter(w0, "WM_MOVE")
        rc      == GetWindowRect(w)
        dpi     == GetDpiForMonitor(w, MonitorFromWindow(w))
    IN  [w EXCEPT
           !.ws.EventFlags  = {EVENT_POSITION_CHANGED},
           !.raised         = @ \cup {EVENT_POSITION_CHANGED},
           !.ws.PositionX   = rc.left,
           !.ws.PositionY   = rc.top,
           !.ws.WindowSizeX = PhysicalToLogicalPixels(U32(RectW(rc)), dpi.x),
           !.ws.WindowSizeY = PhysicalToLogicalPixels(U32(RectH(rc)), dpi.y),
           !.ws.OutputDpiX  = dpi.x,
           !.ws.OutputDpiY  = dpi.y,
           !.ret = 0]

(* A variant that stores the sizes at the DPI the window state holds. *)
WSI_WndProc_WM_MOVE_StoredDpi(w0, wparam, lparam) ==
    LET w  == Enter(w0, "WM_MOVE")
        rc == GetWindowRect(w)
    IN  [w EXCEPT
           !.ws.EventFlags  = @ \cup {EVENT_POSITION_CHANGED},
           !.raised         = @ \cup {EVENT_POSITION_CHANGED},
           !.ws.PositionX   = rc.left,
           !.ws.PositionY   = rc.top,
           !.ws.WindowSizeX = PhysicalToLogicalPixels(U32(RectW(rc)), w.ws.OutputDpiX),
           !.ws.WindowSizeY = PhysicalToLogicalPixels(U32(RectH(rc)), w.ws.OutputDpiY),
           !.ret = 0]

WSI_WndProc_WM_MOVE(w0, wparam, lparam) ==
    LET w       == Enter(w0, "WM_MOVE")
        monitor == MonitorFromWindow(w)
        rc      == GetWindowRect(w)
        dpi     == GetDpiForMonitor(w, monitor)
    IN  [w EXCEPT
           !.ws.EventFlags  = @ \cup {EVENT_POSITION_CHANGED},
           !.raised         = @ \cup {EVENT_POSITION_CHANGED},
           !.ws.PositionX   = rc.left,
           !.ws.PositionY   = rc.top,
           !.ws.WindowSizeX = PhysicalToLogicalPixels(U32(RectW(rc)), dpi.x),
           !.ws.WindowSizeY = PhysicalToLogicalPixels(U32(RectH(rc)), dpi.y),
           !.ws.OutputDpiX  = dpi.x,
           !.ws.OutputDpiY  = dpi.y,
           !.ret = 0]

(* A variant that takes the resize path whatever the notification says. *)
WSI_WndProc_WM_SIZE_AlwaysResizes(w0, wparam, lparam) ==
    [Call_ResizeBackBuffer(Enter(w0, "WM_SIZE"), lparam.lo, lparam.hi) EXCEPT
        !.ws.EventFlags = @ \cup {EVENT_SIZE_CHANGED},
        !.raised        = @ \cup {EVENT_SIZE_CHANGED},
        !.ret = 0]

WSI_WndProc_WM_SIZE(w0, wparam, lparam) ==
    LET w            == Enter(w0, "WM_SIZE")
        monitor      == MonitorFromWindow(w)
        phy_client_w == lparam.lo
        phy_client_h == lparam.hi
        dpi          == GetDpiForMonitor(w, monitor)
        log_client_w == PhysicalToLogicalPixels(phy_client_w, dpi.x)
        log_client_h == PhysicalToLogicalPixels(phy_client_h, dpi.y)
        hidden       == wparam \in {"SIZE_MINIMIZED", "SIZE_MAXHIDE"}
        flags        == {EVENT_SIZE_CHANGED}
                        \cup (IF hidden THEN {EVENT_HIDDEN} ELSE {})
                        \cup (IF wparam = "SIZE_RESTORED" THEN {EVENT_SHOWN} ELSE {})
        status       == IF hidden THEN w.ws.StatusFlags \ {STATUS_VISIBLE}
                        ELSE w.ws.StatusFlags \cup {STATUS_VISIBLE}
        is_visible   == ~hidden
        did_size     == ~(log_client_w = w.ws.ClientSizeX /\ log_client_h = w.ws.ClientSizeY)
    IN  IF ~is_visible \/ ~did_size
        THEN [w EXCEPT !.ws.StatusFlags = status, !.ret = 0]
        ELSE LET is_fullscreen == STATUS_FULLSCREEN \in w.ws.StatusFlags
                 status2 == IF is_fullscreen THEN status \cup {STATUS_FULLSCREEN}
                            ELSE status \ {STATUS_FULLSCREEN}
                 rc      == GetWindowRect(w)
             IN  [Call_ResizeBackBuffer(w, phy_client_w, phy_client_h) EXCEPT
                    !.ws.StatusFlags = status2,
                    !.ws.EventFlags  = @ \cup flags,
                    !.raised         = @ \cup flags,
                    !.ws.PositionX   = rc.left,
                    !.ws.PositionY   = rc.top,
                    !.ws.WindowSizeX = PhysicalToLogicalPixels(U32(RectW(rc)), dpi.x),
                    !.ws.WindowSizeY = PhysicalToLogicalPixels(U32(RectH(rc)), dpi.y),
                    !.ws.ClientSizeX = log_client_w,
                    !.ws.ClientSizeY = log_client_h,
                    !.ws.OutputDpiX  = dpi.x,
                    !.ws.OutputDpiY  = dpi.y,
                    !.ret = 0]

(* A variant that tracks the Visible bit only. *)
WSI_WndProc_WM_SHOWWINDOW_VisibleOnly(w0, wparam, lparam) ==
    DefWindowProc(
        [Enter(w0, "WM_SHOWWINDOW") EXCEPT
            !.ws.StatusFlags = IF wparam THEN @ \cup {STATUS_VISIBLE}
                               ELSE @ \ {STATUS_VISIBLE},
            !.ws.EventFlags  = @ \cup {IF wparam THEN EVENT_SHOWN ELSE EVENT_HIDDEN},
            !.raised         = @ \cup {IF wparam THEN EVENT_SHOWN ELSE EVENT_HIDDEN}],
        "WM_SHOWWINDOW", wparam, lparam)

WSI_WndProc_WM_SHOWWINDOW(w0, wparam, lparam) ==
    LET w == Enter(w0, "WM_SHOWWINDOW")
    IN  IF wparam
        THEN LET monitor   == MonitorFromWindow(w)
                 rc        == GetWindowRect(w)
                 dpi       == GetDpiForMonitor(w, monitor)
                 crc       == GetClientRect(w)
                 phys_x_px == U32(RectW(crc))
                 phys_y_px == U32(RectH(crc))
                 w1 == [w EXCEPT
                          !.ws.StatusFlags = @ \cup {STATUS_VISIBLE},
                          !.ws.EventFlags  = @ \cup {EVENT_SHOWN},
                          !.raised         = @ \cup {EVENT_SHOWN},
                          !.ws.PositionX   = rc.left,
                          !.ws.PositionY   = rc.top,
                          !.ws.WindowSizeX = PhysicalToLogicalPixels(U32(RectW(rc)), dpi.x),
                          !.ws.WindowSizeY = PhysicalToLogicalPixels(U32(RectH(rc)), dpi.y),
                          !.ws.ClientSizeX = PhysicalToLogicalPixels(phys_x_px, dpi.x),
                          !.ws.ClientSizeY = PhysicalToLogicalPixels(phys_y_px, dpi.y),
                          !.ws.OutputDpiX  = dpi.x,
                          !.ws.OutputDpiY  = dpi.y]
                 w2 == Call_ResizeBackBuffer(w1, phys_x_px, phys_y_px)
             IN  DefWindowProc(w2, "WM_SHOWWINDOW", wparam, lparam)
        ELSE DefWindowProc(
                 [w EXCEPT !.ws.StatusFlags = @ \ {STATUS_VISIBLE, STATUS_ACTIVE},
                           !.ws.EventFlags  = @ \cup {EVENT_HIDDEN, EVENT_DEACTIVATED},
                           !.raised         = @ \cup {EVENT_HIDDEN, EVENT_DEACTIVATED}],
                 "WM_SHOWWINDOW", wparam, lparam)

(* WSI_WndProc for the messages the window manager sends from inside       *)
(* SetWindowPos and ShowWindow (the dispatch of lines 643-672).            *)
WSI_WndProc_Sent_Switch(w, msg, wparam, lparam) ==
    IF ~w.win.assoc
    THEN DefWindowProc(w, msg, wparam, lparam)
    ELSE CASE msg = "WM_MOVE"       -> WSI_WndProc_WM_MOVE(w, wparam, lparam)
           [] msg = "WM_SIZE"       -> WSI_WndProc_WM_SIZE(w, wparam, lparam)
           [] msg = "WM_ACTIVATE"   -> WSI_WndProc_WM_ACTIVATE(w, wparam, lparam)
           [] msg = "WM_SHOWWINDOW" -> WSI_WndProc_WM_SHOWWINDOW(w, wparam, lparam)
           [] OTHER                 -> DefWindowProc(w, msg, wparam, lparam)

WSI_WndProc_Sent(w, msg, wparam, lparam) ==
    LogHandler(w, WSI_WndProc_Sent_Switch(Run(w), msg, wparam, lparam), msg, wparam, lparam)

(* The window manager applies a new outer rectangle: it recomputes the     *)
(* client area and (DefWindowProc, WM_WINDOWPOSCHANGED) sends WM_MOVE when *)
(* the client origin moved, then WM_SIZE when the client size changed or   *)
(* the show state changed.                                                 *)
SendIf(w, cond, msg, wparam, lparam) ==
    IF cond THEN WSI_WndProc_Sent(w, msg, wparam, lparam) ELSE w

ApplyWindowPos(w, rc, stateChanged) ==
    LET old == w.win.client
        new == ComputeClient(rc, w.win.style)
        w1  == [w EXCEPT !.win.rect = rc, !.win.client = new,
                         !.win.normalRect =
                             IF {WS_MAXIMIZE, WS_MINIMIZE} \cap w.win.style = {}
                             THEN rc ELSE @]
    IN  SendIf(SendIf(w1, new.left # old.left \/ new.top # old.top,
                      "WM_MOVE", 0, [lo |-> WORD(new.left), hi |-> WORD(new.top)]),
               RectW(new) # RectW(old) \/ RectH(new) # RectH(old) \/ stateChanged,
               "WM_SIZE", SizeCode(w.win.style), SizeLParam(new))

(* SetWindowPos(hwnd, after, x, y, cx, cy, flags) *)
SetWindowPos(w, x, y, cx, cy, flags) ==
    LET l == IF "SWP_NOMOVE" \in flags THEN w.win.rect.left ELSE x
        t == IF "SWP_NOMOVE" \in flags THEN w.win.rect.top ELSE y
    IN  ApplyWindowPos(w, Rect(l, t, l + cx, t + cy), FALSE)

(* Activation changes send WM_ACTIVATE (wparam: LOWORD the activation      *)
(* code, HIWORD the minimized indicator).                                  *)
SetActive(w, on) ==
    SendIf([w EXCEPT !.win.active = on], w.win.active # on, "WM_ACTIVATE",
           [active |-> IF on THEN 1 ELSE 0, minimized |-> WS_MINIMIZE \in w.win.style], 0)

MaximizedRect(w) ==
    LET m == MonitorFromWindow(w)
    IN  IF Decorated(w.win.style)
        THEN AdjustWindowRectEx(Rect(rcWork(m).left, rcWork(m).top + CaptionH,
                                     rcWork(m).right, rcWork(m).bottom),
                                w.win.style, w.win.exStyle)
        ELSE rcMonitor(m)

(* ShowWindow(hwnd, cmd), one operator per command the program uses.       *)
(* WM_SHOWWINDOW is sent when the visibility changes, except for the       *)
(* SW_SHOWNORMAL and SW_SHOWMAXIMIZED commands.                            *)
SetVisible(w, on) ==
    [w EXCEPT !.win.style = IF on THEN @ \cup {WS_VISIBLE} ELSE @ \ {WS_VISIBLE}]

ShowWindow_SW_HIDE(w) ==
    IF WS_VISIBLE \notin w.win.style THEN w
    ELSE SetActive(SetVisible(WSI_WndProc_Sent(w, "WM_SHOWWINDOW", FALSE, 0), FALSE),
                   FALSE)

ShowWindow_SW_SHOW(w) ==
    SetActive(SetVisible(SendIf(w, WS_VISIBLE \notin w.win.style,
                                "WM_SHOWWINDOW", TRUE, 0), TRUE),
              TRUE)

EnterMaximized(w) ==
    [w EXCEPT !.win.normalRect = w.win.rect,
              !.win.style = (@ \ {WS_MINIMIZE}) \cup {WS_VISIBLE, WS_MAXIMIZE}]

ApplyMaximized(w) == ApplyWindowPos(w, MaximizedRect(w), TRUE)

ShowWindow_SW_MAXIMIZE(w) ==
    IF WS_MAXIMIZE \in w.win.style
    THEN SetVisible(w, TRUE)
    ELSE ApplyMaximized(EnterMaximized(w))

LeaveMinMax(w) ==
    [w EXCEPT !.win.style = (@ \ {WS_MAXIMIZE, WS_MINIMIZE}) \cup {WS_VISIBLE}]

ShowWindow_SW_NORMAL(w) ==
    SetActive(IF {WS_MAXIMIZE, WS_MINIMIZE} \cap w.win.style # {}
              THEN ApplyWindowPos(LeaveMinMax(w), w.win.normalRect, TRUE)
              ELSE SetVisible(w, TRUE),
              TRUE)

(***************************************************************************)
(* Window state machine, second part: the handlers that call into the     *)
(* window manager, and the window procedure.                               *)
(***************************************************************************)
(* A variant that adds Created to the status and event flags it finds. *)
WSI_WndProc_WM_CREATE_Merges(w0, wparam, lparam) ==
    LET w         == Enter(w0, "WM_CREATE")
        dpi       == GetDpiForMonitor(w, MonitorFromWindow(w))
        phys_x_px == LogicalToPhysicalPixels(w.ws.ClientSizeX, dpi.x)
        phys_y_px == LogicalToPhysicalPixels(w.ws.ClientSizeY, dpi.y)
        rc        == AdjustWindowRectEx(Rect(0, 0, I32(phys_x_px), I32(phys_y_px)),
                                        w.win.style, w.win.exStyle)
        w1        == SetWindowPos(w, 0, 0, RectW(rc), RectH(rc),
                                  {"SWP_NOACTIVATE", "SWP_NOMOVE", "SWP_NOZORDER"})
        w2        == [w1 EXCEPT
                        !.ws.StatusFlags = @ \cup {STATUS_CREATED},
                        !.ws.EventFlags  = @ \cup {EVENT_CREATED, EVENT_SIZE_CHANGED,
                                                   EVENT_POSITION_CHANGED},
                        !.ws.OutputDpiX  = dpi.x,
                        !.ws.OutputDpiY  = dpi.y,
                        !.ws.WindowSizeX = PhysicalToLogicalPixels(U32(RectW(rc)), dpi.x),
                        !.ws.WindowSizeY = PhysicalToLogicalPixels(U32(RectH(rc)), dpi.y)]
    IN  [Call_ResizeBackBuffer(w2, phys_x_px, phys_y_px) EXCEPT !.ret = 0]

WSI_WndProc_WM_CREATE(w0, wparam, lparam) ==
    LET w         == Enter(w0, "WM_CREATE")
        monitor   == MonitorFromWindow(w)
        dpi       == GetDpiForMonitor(w, monitor)
        style     == w.win.style
        ex_style  == w.win.exStyle
        phys_x_px == LogicalToPhysicalPixels(w.ws.ClientSizeX, dpi.x)
        phys_y_px == LogicalToPhysicalPixels(w.ws.ClientSizeY, dpi.y)
        rc        == AdjustWindowRectEx(Rect(0, 0, I32(phys_x_px), I32(phys_y_px)),
                                        style, ex_style)
        w1        == SetWindowPos(w, 0, 0, RectW(rc), RectH(rc),
                                  {"SWP_NOACTIVATE", "SWP_NOMOVE", "SWP_NOZORDER"})
        w2        == [w1 EXCEPT
                        !.ws.StatusFlags = {STATUS_CREATED},
                        !.ws.EventFlags  = {EVENT_CREATED, EVENT_SIZE_CHANGED,
                                            EVENT_POSITION_CHANGED},
                        !.raised         = @ \cup {EVENT_CREATED, EVENT_SIZE_CHANGED,
                                                   EVENT_POSITION_CHANGED},
                        !.ws.OutputDpiX  = dpi.x,
                        !.ws.OutputDpiY  = dpi.y,
                        !.ws.WindowSizeX = PhysicalToLogicalPixels(U32(RectW(rc)), dpi.x),
                        !.ws.WindowSizeY = PhysicalToLogicalPixels(U32(RectH(rc)), dpi.y)]
        w3        == Call_ResizeBackBuffer(w2, phys_x_px, phys_y_px)
    IN  [w3 EXCEPT !.ret = 0]

(* A variant that merges Destroyed into the pending events. *)
WSI_WndProc_WM_CLOSE_Merges(w0, wparam, lparam) ==
    [ShowWindow_SW_HIDE(Enter(w0, "WM_CLOSE")) EXCEPT
        !.ws.StatusFlags = {},
        !.ws.EventFlags  = @ \cup {EVENT_DESTROYED},
        !.raised         = @ \cup {EVENT_DESTROYED},
        !.ret = 0]

WSI_WndProc_WM_CLOSE(w0, wparam, lparam) ==
    LET w  == Enter(w0, "WM_CLOSE")
        w1 == ShowWindow_SW_HIDE(w)
    IN  [w1 EXCEPT !.ws.StatusFlags = {},
                   !.ws.EventFlags  = {EVENT_DESTROYED},
                   !.raised         = @ \cup {EVENT_DESTROYED},
                   !.ret = 0]

WSI_WndProc_WM_DPICHANGED(w0, wparam, lparam) ==
    LET w         == Enter(w0, "WM_DPICHANGED")
        monitor   == MonitorFromWindow(w)
        dpi_x     == wparam.lo
        dpi_y     == wparam.hi
        style     == w.win.style
        ex_style  == w.win.exStyle
        phys_x_px == LogicalToPhysicalPixels(w.ws.ClientSizeX, dpi_x)
        phys_y_px == LogicalToPhysicalPixels(w.ws.ClientSizeY, dpi_y)
        suggested == lparam
        windowed  == WS_POPUP \notin style
        flags     == IF windowed /\ (suggested.left # w.ws.PositionX
                                     \/ suggested.top # w.ws.PositionY)
                     THEN {EVENT_POSITION_CHANGED} ELSE {}
        rc        == IF windowed
                     THEN AdjustWindowRectEx(
                              Rect(suggested.left, suggested.top,
                                   I32(suggested.left + phys_x_px),
                                   I32(suggested.top + phys_y_px)),
                              style, ex_style)
                     ELSE QueryMonitorGeometry(monitor).rcMonitor
        w1        == IF windowed
                     THEN SetWindowPos(w, rc.left, rc.top, RectW(rc), RectH(rc),
                                       {"SWP_NOACTIVATE", "SWP_NOZORDER"})
                     ELSE w
        w2        == [w1 EXCEPT
                        !.ws.OutputDpiX  = dpi_x,
                        !.ws.OutputDpiY  = dpi_y,
                        !.ws.PositionX   = rc.left,
                        !.ws.PositionY   = rc.top,
                        !.ws.WindowSizeX = PhysicalToLogicalPixels(U32(RectW(rc)), dpi_x),
                        !.ws.WindowSizeY = PhysicalToLogicalPixels(U32(RectH(rc)), dpi_y),
                        !.ws.EventFlags  = @ \cup {EVENT_SIZE_CHANGED} \cup flags,
                        !.raised         = @ \cup {EVENT_SIZE_CHANGED} \cup flags]
        w3        == Call_ResizeBackBuffer(w2, phys_x_px, phys_y_px)
    IN  [w3 EXCEPT !.ret = 0]

(* A variant that does not capture the window rectangle. *)
SaveRestore_NoRect(w) ==
    [w EXCEPT !.ws.RestoreStyle   = w.win.style,
              !.ws.RestoreStyleEx = w.win.exStyle]

(* Lines 583-585: snapshot of the windowed geometry and styles. *)
SaveRestore(w) ==
    [w EXCEPT !.ws.RestoreRect    = GetWindowRect(w),
              !.ws.RestoreStyle   = w.win.style,
              !.ws.RestoreStyleEx = w.win.exStyle]

SWP_Toggle == {"SWP_FRAMECHANGED", "SWP_NOACTIVATE", "SWP_NOZORDER", "SWP_NOOWNERZORDER"}

(* A variant that enters fullscreen without setting the status flag. *)
WSI_WndProc_WM_SYSCOMMAND_NoFlag(w0, wparam, lparam) ==
    LET w == Enter(w0, "WM_SYSCOMMAND")
    IN  IF wparam = "SC_KEYMENU" /\ lparam = "VK_RETURN"
        THEN LET monitor == MonitorFromWindow(w)
             IN  IF STATUS_FULLSCREEN \in w.ws.StatusFlags
                 THEN LET rc == w.ws.RestoreRect
                          w1 == SetWindowLongStyle(w, w.ws.RestoreStyle)
                          w2 == SetWindowLongExStyle(w1, w.ws.RestoreStyleEx)
                          w3 == SetWindowPos(w2, rc.left, rc.top, RectW(rc), RectH(rc),
                                             SWP_Toggle)
                          w4 == [w3 EXCEPT !.ws.StatusFlags = @ \ {STATUS_FULLSCREEN}]
                          w5 == ShowWindow_SW_NORMAL(w4)
                      IN  [w5 EXCEPT !.ret = 0]
                 ELSE LET moninfo == QueryMonitorGeometry(monitor)
                          w1 == SaveRestore(w)
                          rc == moninfo.rcMonitor
                          w2 == SetWindowLongStyle(w1, {WS_POPUP})
                          w3 == SetWindowPos(w2, rc.left, rc.top, RectW(rc), RectH(rc),
                                             SWP_Toggle)
                          w5 == ShowWindow_SW_MAXIMIZE(w3)
                      IN  [w5 EXCEPT !.ret = 0]
        ELSE DefWindowProc(w, "WM_SYSCOMMAND", wparam, lparam)

WSI_WndProc_WM_SYSCOMMAND(w0, wparam, lparam) ==
    LET w == Enter(w0, "WM_SYSCOMMAND")
    IN  IF wparam = "SC_KEYMENU" /\ lparam = "VK_RETURN"
        THEN LET monitor == MonitorFromWindow(w)
             IN  IF STATUS_FULLSCREEN \in w.ws.StatusFlags
                 THEN LET rc == w.ws.RestoreRect
                          w1 == SetWindowLongStyle(w, w.ws.RestoreStyle)
                          w2 == SetWindowLongExStyle(w1, w.ws.RestoreStyleEx)
                          w3 == SetWindowPos(w2, rc.left, rc.top, RectW(rc), RectH(rc),
                                             SWP_Toggle)
                          w4 == [w3 EXCEPT !.ws.StatusFlags = @ \ {STATUS_FULLSCREEN}]
                          w5 == ShowWindow_SW_NORMAL(w4)
                      IN  [w5 EXCEPT !.ret = 0]
                 ELSE LET moninfo == QueryMonitorGeometry(monitor)
                          w1 == SaveRestore(w)
                          rc == moninfo.rcMonitor
                          w2 == SetWindowLongStyle(w1, {WS_POPUP})
                          w3 == SetWindowPos(w2, rc.left, rc.top, RectW(rc), RectH(rc),
                                             SWP_Toggle)
                          w4 == [w3 EXCEPT !.ws.StatusFlags = @ \cup {STATUS_FULLSCREEN}]
                          w5 == ShowWindow_SW_MAXIMIZE(w4)
                      IN  [w5 EXCEPT !.ret = 0]
        ELSE DefWindowProc(w, "WM_SYSCOMMAND", wparam, lparam)

WSI_WndProc_WM_PAINT(w0, wparam, lparam) ==
    LET w == Enter(w0, "WM_PAINT")
    IN  IF w.ws.BackBufferMemory # NULL
        THEN [PresentBackBuffer(w, "paint") EXCEPT !.ret = 0]
        ELSE DefWindowProc(Enter(w, "DefWindowProc"), "WM_PAINT", wparam, lparam)

(* A variant in which WM_NCCREATE does not store the association. *)
WSI_WndProc_Switch_Unassociated(w, msg, wparam, lparam) ==
    IF msg = "WM_NCCREATE"
    THEN DefWindowProc(w, msg, wparam, lparam)
    ELSE IF ~w.win.assoc
    THEN DefWindowProc(w, msg, wparam, lparam)
    ELSE CASE msg = "WM_MOVE"       -> WSI_WndProc_WM_MOVE(w, wparam, lparam)
           [] msg = "WM_SIZE"       -> WSI_WndProc_WM_SIZE(w, wparam, lparam)
           [] msg = "WM_PAINT"      -> WSI_WndProc_WM_PAINT(w, wparam, lparam)
           [] msg = "WM_ACTIVATE"   -> WSI_WndProc_WM_ACTIVATE(w, wparam, lparam)
           [] msg = "WM_SHOWWINDOW" -> WSI_WndProc_WM_SHOWWINDOW(w, wparam, lparam)
           [] msg = "WM_DPICHANGED" -> WSI_WndProc_WM_DPICHANGED(w, wparam, lparam)
           [] msg = "WM_SYSCOMMAND" -> WSI_WndProc_WM_SYSCOMMAND(w, wparam, lparam)
           [] msg = "WM_CREATE"     -> WSI_WndProc_WM_CREATE(w, wparam, lparam)
           [] msg = "WM_CLOSE"      -> WSI_WndProc_WM_CLOSE(w, wparam, lparam)
           [] OTHER                 -> DefWindowProc(w, msg, wparam, lparam)

WSI_WndProc_Switch(w, msg, wparam, lparam) ==
    IF msg = "WM_NCCREATE"
    THEN DefWindowProc([w EXCEPT !.win.assoc = TRUE, !.ws.Win32Handle = 1],
                       msg, wparam, lparam)
    ELSE IF ~w.win.assoc
    THEN DefWindowProc(w, msg, wparam, lparam)
    ELSE CASE msg = "WM_MOVE"       -> WSI_WndProc_WM_MOVE(w, wparam, lparam)
           [] msg = "WM_SIZE"       -> WSI_WndProc_WM_SIZE(w, wparam, lparam)
           [] msg = "WM_PAINT"      -> WSI_WndProc_WM_PAINT(w, wparam, lparam)
           [] msg = "WM_ACTIVATE"   -> WSI_WndProc_WM_ACTIVATE(w, wparam, lparam)
           [] msg = "WM_SHOWWINDOW" -> WSI_WndProc_WM_SHOWWINDOW(w, wparam, lparam)
           [] msg = "WM_DPICHANGED" -> WSI_WndProc_WM_DPICHANGED(w, wparam, lparam)
           [] msg = "WM_SYSCOMMAND" -> WSI_WndProc_WM_SYSCOMMAND(w, wparam, lparam)
           [] msg = "WM_CREATE"     -> WSI_WndProc_WM_CREATE(w, wparam, lparam)
           [] msg = "WM_CLOSE"      -> WSI_WndProc_WM_CLOSE(w, wparam, lparam)
           [] OTHER                 -> DefWindowProc(w, msg, wparam, lparam)

WSI_WndProc(w, msg, wparam, lparam) ==
    LogHandler(w, WSI_WndProc_Switch(Run(w), msg, wparam, lparam), msg, wparam, lparam)

(***************************************************************************)
(* wWinMain                                                                *)
(***************************************************************************)

(* The initial centred geometry: virtual_x/y and the clamped dim_x/y_px,   *)
(* in the mixed LONG / uint32_t arithmetic of the source.                  *)
InitialGeometry(rc) ==
    LET vx == I32(rc.left + U32(RectW(rc) - InitialClientX) \div 2)
        vy == I32(rc.top  + U32(RectH(rc) - InitialClientY) \div 2)
        dx == IF I32(vx + InitialClientX) > I32(RectW(rc))
              THEN U32(RectW(rc) - vx) ELSE InitialClientX
        dy == IF I32(vy + InitialClientY) > I32(RectH(rc))
              THEN U32(RectH(rc) - vy) ELSE InitialClientY
    IN  [virtual_x |-> vx, virtual_y |-> vy, dim_x_px |-> dx, dim_y_px |-> dy]

(* The WSI_WINDOW_STATE wWinMain hands to CreateWindowEx. *)
InitialWindowState(api) ==
    LET g == InitialGeometry(QueryMonitorGeometry(NULL).rcWork)
    IN  [Win32Handle      |-> NULL,
         StatusFlags      |-> {},
         EventFlags       |-> {},
         OutputDpiX       |-> USER_DEFAULT_SCREEN_DPI,
         OutputDpiY       |-> USER_DEFAULT_SCREEN_DPI,
         PositionX        |-> g.virtual_x,
         PositionY        |-> g.virtual_y,
         WindowSizeX      |-> g.dim_x_px,
         WindowSizeY      |-> g.dim_y_px,
         ClientSizeX      |-> g.dim_x_px,
         ClientSizeY      |-> g.dim_y_px,
         RestoreRect      |-> ZeroRect,
         RestoreStyle     |-> InitialStyle,
         RestoreStyleEx   |-> InitialStyleEx,
         BackBufferMemory |-> NULL,
         BackBufferWidth  |-> 0,
         BackBufferHeight |-> 0,
         BackBufferStride |-> 0,
         BackBufferInfo   |-> ZeroHeader,
         Win32Api         |-> api]

(* A variant that takes both entries from Shcore or neither. *)
ResolveApi_Coupled(shcore, hasGetDpi, hasSetAwareness) ==
    [GetDpiForMonitor       |-> IF shcore /\ hasGetDpi /\ hasSetAwareness
                                THEN "native" ELSE "stub",
     SetProcessDpiAwareness |-> IF shcore /\ hasGetDpi /\ hasSetAwareness
                                THEN "native" ELSE "stub"]

(* Resolution of the dispatch table: each entry is the Shcore entry point  *)
(* when Shcore.dll and the symbol exist, the stub otherwise.               *)
ResolveApi(shcore, hasGetDpi, hasSetAwareness) ==
    [GetDpiForMonitor       |-> IF shcore /\ hasGetDpi THEN "native" ELSE "stub",
     SetProcessDpiAwareness |-> IF shcore /\ hasSetAwareness THEN "native" ELSE "stub"]

NoWindow ==
    [exists |-> FALSE, assoc |-> FALSE, rect |-> ZeroRect, client |-> ZeroRect,
     normalRect |-> ZeroRect, style |-> {}, exStyle |-> {}, active |-> FALSE,
     dpi |-> USER_DEFAULT_SCREEN_DPI]

NoFrameBuffer == [ret |-> 0, Base |-> NULL, Width |-> 0, Height |-> 0, Stride |-> 0]

NoStep ==
    [msg |-> "none", trace |-> <<>>, calls |-> <<>>, blits |-> <<>>, ret |-> 0,
     failed |-> FALSE, destroyed |-> FALSE, fb |-> NoFrameBuffer, hlog |-> <<>>,
     lastError |-> 0]

NoSize == [x |-> 0, y |-> 0]
NoSnapshot == [valid |-> FALSE, rect |-> ZeroRect, style |-> {}, exStyle |-> {}]
NoRoundTrip == [toggles |-> 0, rect |-> ZeroRect, style |-> {}, exStyle |-> {}]

Init ==
    /\ \E shcore \in BOOLEAN :
         /\ ws = InitialWindowState(ResolveApi(shcore, shcore, shcore))
         /\ \E d \in [Monitors -> DpiValues] :
              /\ shcore \/ \A m \in Monitors : d[m] = d[1]
              /\ desk = [dpi |-> d, sysDpi |-> d[1]]
    /\ win = NoWindow
    /\ heap = EmptyHeap
    /\ pc = "create"
    /\ last = NoStep
    /\ hist = [allocFailed |-> FALSE, closed |-> FALSE, drainExit |-> "none",
               pending |-> NoSize,
               snapshot |-> NoSnapshot, msgs |-> 0, pre |-> NoRoundTrip]

Plans == {<<>>, <<FALSE>>, <<TRUE, FALSE>>}

World(plan) ==
    [ws |-> ws, win |-> win, heap |-> heap, mon |-> desk.dpi, sysDpi |-> desk.sysDpi,
     plan |-> plan, trace |-> <<>>, calls |-> <<>>, blits |-> <<>>, ret |-> 0,
     failed |-> FALSE, raised |-> {}, hlog |-> <<>>]

InFullscreenStyle(wn) == WS_POPUP \in wn.style

(* The geometry a window had when it last went from a decorated style to   *)
(* the borderless popup style, observed on the window itself.              *)
NextSnapshot(w) ==
    IF ~InFullscreenStyle(win) /\ InFullscreenStyle(w.win)
    THEN [valid |-> TRUE, rect |-> win.rect, style |-> win.style, exStyle |-> win.exStyle]
    ELSE IF InFullscreenStyle(win) /\ ~InFullscreenStyle(w.win)
    THEN NoSnapshot
    ELSE hist.snapshot

(* The window before the first of two consecutive fullscreen toggles that  *)
(* start from a windowed state.                                            *)
NextRoundTrip(name) ==
    IF name # "WM_SYSCOMMAND" THEN NoRoundTrip
    ELSE IF hist.pre.toggles = 1 THEN [hist.pre EXCEPT !.toggles = 2]
    ELSE IF ~InFullscreenStyle(win) /\ STATUS_FULLSCREEN \notin ws.StatusFlags
    THEN [toggles |-> 1, rect |-> win.rect, style |-> win.style, exStyle |-> win.exStyle]
    ELSE NoRoundTrip

(* The size of the last ResizeBackBuffer call of a step when it failed, no  *)
(* size when it succeeded: the resize the backbuffer is still waiting for. *)
NextPending(calls) ==
    IF Len(calls) = 0 THEN hist.pending
    ELSE IF calls[Len(calls)].ret # 0
    THEN [x |-> calls[Len(calls)].x, y |-> calls[Len(calls)].y]
    ELSE NoSize

(* Store the outcome of one step of wWinMain. *)
Commit(w, name, next) ==
    /\ ws' = w.ws
    /\ win' = w.win
    /\ heap' = w.heap
    /\ pc' = next
    /\ last' = [msg |-> name, trace |-> w.trace, calls |-> w.calls, blits |-> w.blits,
                ret |-> w.ret, failed |-> w.failed,
                destroyed |-> EVENT_DESTROYED \in ws.EventFlags, fb |-> NoFrameBuffer,
                hlog |-> w.hlog, lastError |-> 0]
    /\ hist' = [hist EXCEPT
                  !.allocFailed = @ \/ w.failed,
                  !.pending = NextPending(w.calls),
                  !.closed = @ \/ name = "WM_CLOSE",
                  !.snapshot = NextSnapshot(w),
                  !.pre = NextRoundTrip(name),
                  !.msgs = IF next = "drain" /\ pc = "drain" THEN @ + 1 ELSE @]

(* CreateWindowEx: the window manager creates the window at the requested  *)
(* rectangle and sends WM_GETMINMAXINFO, WM_NCCREATE and WM_CREATE, one    *)
(* step each; or it fails and wWinMain returns GetLastError().             *)
NewWindow(w) ==
    LET rc == Rect(w.ws.PositionX, w.ws.PositionY,
                   w.ws.PositionX + w.ws.ClientSizeX, w.ws.PositionY + w.ws.ClientSizeY)
    IN  [w EXCEPT !.win = [exists |-> TRUE, assoc |-> FALSE, rect |-> rc,
                           client |-> ComputeClient(rc, InitialStyle),
                           normalRect |-> rc, style |-> InitialStyle,
                           exStyle |-> InitialStyleEx, active |-> FALSE,
                           dpi |-> w.mon[1]]]

CreateMsg ==
    CASE pc = "create"   -> [msg |-> "WM_GETMINMAXINFO", next |-> "nccreate"]
      [] pc = "nccreate" -> [msg |-> "WM_NCCREATE", next |-> "wmcreate"]
      [] OTHER           -> [msg |-> "WM_CREATE", next |-> "show"]

(* The codes GetLastError can report after a failed CreateWindowEx:        *)
(* ERROR_NOT_ENOUGH_MEMORY, ERROR_INVALID_WINDOW_HANDLE and                *)
(* ERROR_CANNOT_FIND_WND_CLASS.                                            *)
LastErrors == {8, 1400, 1407}

(* A variant that reports success. *)
CreateFailedExit_Zero(err) == 0

(* return (int) GetLastError(); *)
CreateFailedExit(err) == I32(err)

CreateWindow ==
    /\ pc \in {"create", "nccreate", "wmcreate"}
    /\ \/ \E plan \in Plans :
            /\ pc # "wmcreate" => plan = <<>>
            /\ Commit(WSI_WndProc(IF pc = "create" THEN NewWindow(World(plan))
                                  ELSE World(plan),
                                  CreateMsg.msg, 0, 0),
                      CreateMsg.msg, CreateMsg.next)
       \/ /\ pc = "create"
          /\ pc' = "failed"
          /\ \E err \in LastErrors :
               last' = [NoStep EXCEPT !.msg = "CreateWindowEx-failed",
                                      !.lastError = err,
                                      !.ret = CreateFailedExit(err)]
          /\ UNCHANGED <<ws, win, heap, hist>>
    /\ UNCHANGED desk

ShowStep ==
    /\ pc = "show"
    /\ \E plan \in Plans : Commit(ShowWindow_SW_SHOW(World(plan)), "ShowWindow", "drain")
    /\ UNCHANGED desk

(***************************************************************************)
(* The message drain.  Each action below is one message retrieved by       *)
(* PeekMessage and dispatched by DispatchMessage, together with what the   *)
(* window manager does around it; the inputs are what the user or the      *)
(* system can do to the window in its current state.                       *)
(***************************************************************************)
Positions == {[x |-> 560, y |-> 220], [x |-> 2100, y |-> 100]}
ClientSizes == {[w |-> 800, h |-> 600], [w |-> 801, h |-> 600], [w |-> 802, h |-> 601]}

Shown(wn) == wn.exists /\ WS_VISIBLE \in wn.style
Minimized(wn) == WS_MINIMIZE \in wn.style
Maximized(wn) == WS_MAXIMIZE \in wn.style
Restored(wn) == Shown(wn) /\ ~Minimized(wn) /\ ~Maximized(wn) /\ Decorated(wn.style)

ScaleRect(rc, x, y, new, old) ==
    Rect(x, y, x + (RectW(rc) * new) \div old, y + (RectH(rc) * new) \div old)

(* The monitor a rectangle as wide as the window lies on at abscissa x. *)
MonitorAt(wn, x) == IF x + RectW(wn.rect) \div 2 < MonitorW THEN 1 ELSE 2

(* The window manager tells a per-monitor aware window that the DPI of its *)
(* monitor differs from the DPI it has; lparam is the suggested rectangle. *)
NotifyDpi(w, x, y) ==
    LET new == w.mon[MonitorAt(w.win, x)]
    IN  IF w.ws.Win32Api.SetProcessDpiAwareness = "native" /\ new # w.win.dpi
        THEN WSI_WndProc([w EXCEPT !.win.dpi = new], "WM_DPICHANGED",
                         [lo |-> new, hi |-> new],
                         ScaleRect(w.win.rect, x, y, new, w.win.dpi))
        ELSE w

(* The user drags the window to position p. *)
MoveTo(w, p) ==
    ApplyWindowPos(w, Rect(p.x, p.y, p.x + RectW(w.win.rect),
                           p.y + RectH(w.win.rect)), FALSE)

UserMove(w, p) == MoveTo(NotifyDpi(w, p.x, p.y), p)

(* The user drags the frame until the client area has size c. *)
UserResize(w, c) ==
    LET o  == w.win.client
        rc == AdjustWindowRectEx(Rect(o.left, o.top, o.left + c.w, o.top + c.h),
                                 w.win.style, w.win.exStyle)
    IN  ApplyWindowPos(w, rc, FALSE)

UserMinimize(w) ==
    LET w1 == [w EXCEPT !.win.style = @ \cup {WS_MINIMIZE}]
    IN  SetActive(ApplyWindowPos(w1, w1.win.rect, TRUE), FALSE)

UserRestore(w) ==
    LET w1 == [w EXCEPT !.win.style = @ \ {WS_MINIMIZE}]
    IN  SetActive(ApplyWindowPos(w1, w1.win.rect, TRUE), TRUE)

(* The origins the window manager may suggest to a window on monitor m:    *)
(* the corner the window has, or another place on the same monitor.        *)
SuggestedOrigins(wn, m) ==
    {[x |-> wn.rect.left, y |-> wn.rect.top]}
        \cup {p \in Positions : MonitorAt(wn, p.x) = m}

(* The display settings of monitor m change to DPI d; o is the origin of   *)
(* the rectangle suggested to a window on that monitor.                    *)
DpiChange(w, m, d, o) ==
    LET w1 == [w EXCEPT !.mon[m] = d]
    IN  IF w.win.exists /\ MonitorFromWindow(w) = m
        THEN NotifyDpi(w1, o.x, o.y)
        ELSE w1

Dispatch(w, name) ==
    /\ hist.msgs < MaxMsgs
    /\ Commit(w, name, "drain")
    /\ UNCHANGED desk

DispatchMove ==
    /\ pc = "drain" /\ Restored(win)
    /\ \E p \in Positions, plan \in Plans :
         /\ p # [x |-> win.rect.left, y |-> win.rect.top]
         /\ Dispatch(UserMove(World(plan), p), "WM_MOVE")

DispatchSize ==
    /\ pc = "drain" /\ Restored(win)
    /\ \E c \in ClientSizes, plan \in Plans :
         /\ c # [w |-> RectW(win.client), h |-> RectH(win.client)]
         /\ Dispatch(UserResize(World(plan), c), "WM_SIZE")

DispatchMinimize ==
    /\ pc = "drain" /\ Shown(win) /\ ~Minimized(win)
    /\ Dispatch(UserMinimize(World(<<>>)), "WM_SIZE-minimize")

DispatchRestore ==
    /\ pc = "drain" /\ Shown(win) /\ Minimized(win)
    /\ \E plan \in Plans : Dispatch(UserRestore(World(plan)), "WM_SIZE-restore")

DispatchMaximize ==
    /\ pc = "drain" /\ Restored(win)
    /\ \E plan \in Plans :
         Dispatch(ShowWindow_SW_MAXIMIZE(World(plan)), "WM_SIZE-maximize")

DispatchUnmaximize ==
    /\ pc = "drain" /\ Shown(win) /\ Maximized(win) /\ ~Minimized(win)
    /\ Decorated(win.style)
    /\ \E plan \in Plans :
         Dispatch(ShowWindow_SW_NORMAL(World(plan)), "WM_SIZE-unmaximize")

DispatchActivate ==
    /\ pc = "drain" /\ Shown(win)
    /\ Dispatch(SetActive(World(<<>>), ~win.active), "WM_ACTIVATE")

DispatchAltEnter ==
    /\ pc = "drain" /\ Shown(win) /\ ~Minimized(win) /\ win.active
    /\ \E plan \in Plans :
         Dispatch(WSI_WndProc(World(plan), "WM_SYSCOMMAND", "SC_KEYMENU", "VK_RETURN"),
                  "WM_SYSCOMMAND")

DispatchSysCommand ==
    /\ pc = "drain" /\ Shown(win) /\ win.active
    /\ Dispatch(WSI_WndProc(World(<<>>), "WM_SYSCOMMAND", "SC_KEYMENU", "VK_SPACE"),
                "WM_SYSCOMMAND-other")

DispatchClose ==
    /\ pc = "drain" /\ win.exists
    /\ Dispatch(WSI_WndProc(World(<<>>), "WM_CLOSE", 0, 0), "WM_CLOSE")

DispatchPaint ==
    /\ pc = "drain" /\ Shown(win) /\ ~Minimized(win)
    /\ Dispatch(WSI_WndProc(World(<<>>), "WM_PAINT", 0, 0), "WM_PAINT")

DispatchDpiChanged ==
    /\ pc = "drain" /\ win.exists
    /\ ws.Win32Api.SetProcessDpiAwareness = "native"
    /\ \E m \in Monitors, d \in DpiValues, plan \in Plans :
       \E o \in SuggestedOrigins(win, m) :
         /\ d # desk.dpi[m]
         /\ hist.msgs < MaxMsgs
         /\ Commit(DpiChange(World(plan), m, d, o), "WM_DPICHANGED", "drain")
         /\ desk' = [desk EXCEPT !.dpi[m] = d]

(* PeekMessage returns 0, or retrieves WM_QUIT: the drain ends. *)
EndDrain ==
    /\ pc = "drain"
    /\ \E why \in {"empty", "quit"} :
         /\ hist' = [hist EXCEPT !.drainExit = why]
         /\ last' = [NoStep EXCEPT !.msg = "EndDrain"]
    /\ pc' = "check"
    /\ UNCHANGED <<ws, win, desk, heap>>

(* The tests after the drain (lines 813-823). *)
LoopExits_WhenHidden(s) == STATUS_VISIBLE \notin s.StatusFlags
LoopExits(s) == EVENT_DESTROYED \in s.EventFlags
LoopPresents_IgnoresBuffer(s) == STATUS_VISIBLE \in s.StatusFlags
LoopPresents(s) == STATUS_VISIBLE \in s.StatusFlags /\ s.BackBufferMemory # NULL

LoopBody ==
    /\ pc = "check"
    /\ IF LoopExits(ws)
       THEN /\ pc' = "teardown"
            /\ last' = [NoStep EXCEPT !.msg = "break", !.destroyed = TRUE]
            /\ hist' = [hist EXCEPT !.drainExit = "none"]
       ELSE LET w == IF LoopPresents(ws) THEN PresentBackBuffer(World(<<>>), "loop")
                     ELSE World(<<>>)
            IN  /\ pc' = "drain"
                /\ last' = [NoStep EXCEPT !.msg = "tick", !.blits = w.blits]
                /\ hist' = [hist EXCEPT !.closed = FALSE, !.drainExit = "none"]
    /\ UNCHANGED <<ws, win, desk, heap>>

(* DestroyWindow, then the GetMessage loop on the destroyed handle, which  *)
(* fails at once; wWinMain returns 0.                                      *)
Teardown ==
    /\ pc = "teardown"
    /\ pc' = "done"
    /\ win' = [win EXCEPT !.exists = FALSE, !.assoc = FALSE, !.active = FALSE,
                          !.style = @ \ {WS_VISIBLE}]
    /\ last' = [NoStep EXCEPT !.msg = "DestroyWindow"]
    /\ UNCHANGED <<ws, desk, heap, hist>>

(* External renderer code asks for the framebuffer. *)
rtcGetFrameBuffer_AlwaysSucceeds(s) ==
    [ret |-> 0, Base |-> s.BackBufferMemory, Width |-> s.BackBufferWidth,
     Height |-> s.BackBufferHeight, Stride |-> s.BackBufferStride]

rtcGetFrameBuffer(s) ==
    IF s.BackBufferMemory # NULL
    THEN [ret |-> 0, Base |-> s.BackBufferMemory,
          Width |-> s.BackBufferWidth, Height |-> s.BackBufferHeight,
          Stride |-> s.BackBufferStride]
    ELSE [NoFrameBuffer EXCEPT !.ret = -1]

GetFrameBuffer ==
    /\ pc \in {"show", "drain"}
    /\ last' = [NoStep EXCEPT !.msg = "rtcGetFrameBuffer", !.fb = rtcGetFrameBuffer(ws)]
    /\ UNCHANGED <<ws, win, desk, heap, pc, hist>>

Next ==
    \/ CreateWindow
    \/ ShowStep
    \/ DispatchMove
    \/ DispatchSize
    \/ DispatchMinimize
    \/ DispatchRestore
    \/ DispatchMaximize
    \/ DispatchUnmaximize
    \/ DispatchActivate
    \/ DispatchAltEnter
    \/ DispatchSysCommand
    \/ DispatchClose
    \/ DispatchPaint
    \/ DispatchDpiChanged
    \/ EndDrain
    \/ LoopBody
    \/ Teardown
    \/ GetFrameBuffer

Spec == Init /\ [][Next]_vars

(***************************************************************************)
(* Properties                                                              *)
(***************************************************************************)
Range(f) == {f[i] : i \in DOMAIN f}
Calls == Range(last.calls)
Installed == IF ws.BackBufferMemory = NULL THEN {} ELSE {ws.BackBufferMemory}

(* C1: a call of ResizeBackBuffer whose allocation fails returns -1 and    *)
(* leaves base address, width, height and stride, and the set of live      *)
(* allocations, as it found them; with no buffer before there is none      *)
(* after.                                                                  *)
C1_NoBufferLossOnFailedResize ==
    \A c \in Calls :
        /\ "alloc-fail" \in Range(c.ops) => c.ret = -1
        /\ c.ret = -1 => /\ c.post = c.pre
                         /\ c.postLive = c.preLive
                         /\ (c.pre.Base = NULL => c.post.Base = NULL)

C1_Witness ==
    \E c \in Calls : c.ret = -1 /\ c.pre.Base # NULL /\ c.x # c.pre.Width

(* C2: a call of ResizeBackBuffer with the dimensions the existing buffer  *)
(* already has returns 0, allocates nothing, releases nothing and changes  *)
(* no backbuffer field; so of two calls in a row with the same dimensions, *)
(* the first successful, the second allocates nothing and both return 0.   *)
C2_IdempotentResize ==
    /\ \A c \in Calls :
          (c.pre.Base # NULL /\ c.x = c.pre.Width /\ c.y = c.pre.Height) =>
              /\ c.ret = 0
              /\ c.ops = <<"resize-noop">>
              /\ c.post = c.pre
              /\ c.postInfo = c.preInfo
              /\ c.postLive = c.preLive
    /\ \A i \in 1..(Len(last.calls) - 1) :
          LET c == last.calls[i]
              d == last.calls[i + 1]
          IN  (c.ret = 0 /\ d.x = c.x /\ d.y = c.y) =>
                  /\ d.ret = 0
                  /\ "alloc" \notin Range(d.ops)
                  /\ d.post = c.post

C2_Witness ==
    \E i \in 1..(Len(last.calls) - 1) :
        /\ "alloc" \in Range(last.calls[i].ops)
        /\ last.calls[i].ret = 0
        /\ last.calls[i + 1].x = last.calls[i].x
        /\ last.calls[i + 1].y = last.calls[i].y

(* C3: a successful resize to new dimensions allocates, installs the new   *)
(* buffer with width, height and stride = 4 * width, and only then         *)
(* releases the previous buffer, once; in every state the live allocations *)
(* are exactly the installed buffer, and no release ever hit a free or a   *)
(* still installed address.                                                *)
C3_ExactlyTheInstalledBufferIsLive ==
    /\ Live(heap) = Installed
    /\ ~heap.bad
    /\ \A c \in Calls :
          "alloc" \in Range(c.ops) =>
              /\ c.ops = IF c.pre.Base = NULL THEN <<"alloc", "install">>
                         ELSE <<"alloc", "install", "free">>
              /\ c.ret = 0
              /\ c.post.Width = c.x /\ c.post.Height = c.y
              /\ c.post.Stride = 4 * c.x
              /\ c.post.Base \in c.postLive
              /\ c.pre.Base \notin c.postLive
              /\ c.postSize[c.post.Base] = c.x * c.y * 4

C3_Witness ==
    \E c \in Calls : c.ops = <<"alloc", "install", "free">> /\ c.post.Base # c.pre.Base

(* C4: in every state between two handlers in which no allocation has ever *)
(* failed, a backbuffer exists and the window is not minimized, the        *)
(* backbuffer has the width and height of the window's physical client     *)
(* area.                                                                   *)
C4_BackBufferMatchesClientArea ==
    (/\ ~hist.allocFailed
     /\ win.exists
     /\ ~Minimized(win)
     /\ ws.BackBufferMemory # NULL) =>
        /\ ws.BackBufferWidth = RectW(win.client)
        /\ ws.BackBufferHeight = RectH(win.client)

(* C5: rtcGetFrameBuffer returns 0 and the current base address, width,    *)
(* height and stride when a backbuffer exists, non-zero when none does,    *)
(* and changes neither the window state nor the heap.                      *)
C5_GetFrameBuffer ==
    [][last'.msg = "rtcGetFrameBuffer" =>
          /\ ws' = ws /\ heap' = heap /\ win' = win
          /\ (last'.fb.ret = 0) <=> (ws.BackBufferMemory # NULL)
          /\ last'.fb.ret = 0 =>
                 /\ last'.fb.Base = ws.BackBufferMemory
                 /\ last'.fb.Width = ws.BackBufferWidth
                 /\ last'.fb.Height = ws.BackBufferHeight
                 /\ last'.fb.Stride = ws.BackBufferStride]_vars

C5_Witness ==
    /\ last.msg = "rtcGetFrameBuffer"
    /\ last.fb.ret # 0
    /\ pc = "drain"

C5_WitnessBuffer ==
    /\ last.msg = "rtcGetFrameBuffer"
    /\ last.fb.ret = 0
    /\ last.fb.Width # InitialClientX

(* C6: after two fullscreen toggles in a row, the first from a windowed    *)
(* state, the window has the rectangle, style and extended style it had    *)
(* before the first toggle, and the Fullscreen status flag is clear.       *)
C6_FullscreenRoundTrip ==
    hist.pre.toggles = 2 =>
        /\ win.rect = hist.pre.rect
        /\ win.style = hist.pre.style
        /\ win.exStyle = hist.pre.exStyle
        /\ STATUS_FULLSCREEN \notin ws.StatusFlags

(* C7, as claimed: in every state the Fullscreen status flag is set        *)
(* exactly when the restore fields hold the rectangle and styles the       *)
(* window had just before it entered fullscreen.                           *)
RestoreHoldsSnapshot ==
    /\ hist.snapshot.valid
    /\ ws.RestoreRect = hist.snapshot.rect
    /\ ws.RestoreStyle = hist.snapshot.style
    /\ ws.RestoreStyleEx = hist.snapshot.exStyle

C7_FlagIffSnapshot ==
    (STATUS_FULLSCREEN \in ws.StatusFlags) <=> RestoreHoldsSnapshot

(* C7, amended: the equivalence holds in every state in which the Created  *)
(* status flag is set, that is until a Close notification clears the       *)
(* status flags; Close clears Fullscreen although the window is still in   *)
(* fullscreen with its snapshot.                                           *)
C7_FlagIffSnapshotWhileCreated ==
    STATUS_CREATED \in ws.StatusFlags =>
        ((STATUS_FULLSCREEN \in ws.StatusFlags) <=> RestoreHoldsSnapshot)

C7_Witness ==
    /\ STATUS_CREATED \in ws.StatusFlags
    /\ STATUS_FULLSCREEN \in ws.StatusFlags
    /\ WS_MAXIMIZE \in ws.RestoreStyle
    /\ last.msg = "WM_DPICHANGED"

(* C8: when the Close handler has returned, the status flags are empty and *)
(* the event flags are exactly Destroyed, whatever was pending before and  *)
(* whatever the hide raised.                                               *)
C8_CloseLeavesOnlyDestroyed ==
    last.msg = "WM_CLOSE" =>
        /\ ws.StatusFlags = {}
        /\ ws.EventFlags = {EVENT_DESTROYED}

C8_Witness ==
    /\ last.msg = "WM_CLOSE"
    /\ "WM_SHOWWINDOW" \in Range(last.trace)
    /\ "WM_ACTIVATE" \in Range(last.trace)

(* C9: the loop leaves for the teardown only from the test after a drain,  *)
(* and there exactly when Destroyed is set; a drain in which Close was     *)
(* dispatched is followed by the exit, without a present.                  *)
C9_LoopExitsIffDestroyed ==
    [][/\ pc = "check" => ((pc' = "teardown") <=> (EVENT_DESTROYED \in ws.EventFlags))
       /\ pc' = "teardown" => pc = "check"
       /\ pc = "drain" => pc' \in {"drain", "check"}
       /\ (pc = "check" /\ hist.closed) => (pc' = "teardown" /\ last'.blits = <<>>)]_vars

C9_Witness ==
    /\ pc = "teardown"
    /\ hist.closed
    /\ hist.msgs > 1

C9_WitnessQuit ==
    /\ pc = "drain"
    /\ last.msg = "tick"
    /\ hist.msgs > 0

(* C10: a tick in which Destroyed is not set presents exactly when Visible *)
(* is set and a backbuffer exists; every present (loop or paint) has a     *)
(* backbuffer, LogicalToPhysical(ClientSize, OutputDpi) as destination     *)
(* size and the backbuffer width and height as source size.                *)
C10_PresentRule ==
    /\ last.msg = "tick" =>
          /\ Len(last.blits) <= 1
          /\ (Len(last.blits) = 1) <=>
                 (STATUS_VISIBLE \in ws.StatusFlags /\ ws.BackBufferMemory # NULL)
    /\ \A b \in Range(last.blits) :
          /\ b.mem # NULL
          /\ b.mem = ws.BackBufferMemory
          /\ b.dst_w = (ws.ClientSizeX * ws.OutputDpiX) \div 96
          /\ b.dst_h = (ws.ClientSizeY * ws.OutputDpiY) \div 96
          /\ b.src_w = ws.BackBufferWidth
          /\ b.src_h = ws.BackBufferHeight

C10_Witness ==
    /\ last.msg = "tick"
    /\ Len(last.blits) = 1
    /\ last.blits[1].dst_w # last.blits[1].src_w

C10_WitnessNoPresent ==
    /\ last.msg = "tick"
    /\ STATUS_VISIBLE \in ws.StatusFlags
    /\ ws.BackBufferMemory = NULL

(* C11: when the program has finished (a Close set Destroyed, the loop     *)
(* ended and the window was torn down), no backbuffer allocation is live.  *)
C11_BackBufferReleasedAtExit ==
    pc = "done" => Live(heap) = {}

(* C12: when the Create handler has returned, the status flags are        *)
(* exactly {Created}, the event flags exactly {Created, SizeChanged,       *)
(* PositionChanged}, the stored DPI is the DPI the dispatch table resolves *)
(* for the primary monitor, and unless the allocation failed the           *)
(* backbuffer is LogicalToPhysical(800, dpiX) x LogicalToPhysical(600,     *)
(* dpiY) with stride 4 * width: 800 x 600, stride 3200, at 96 DPI.         *)
ResolvedPrimaryDpi ==
    IF ws.Win32Api.GetDpiForMonitor = "stub" THEN desk.sysDpi ELSE desk.dpi[1]

C12_CreateTransition ==
    last.msg = "WM_CREATE" =>
        /\ ws.StatusFlags = {STATUS_CREATED}
        /\ ws.EventFlags = {EVENT_CREATED, EVENT_SIZE_CHANGED, EVENT_POSITION_CHANGED}
        /\ ws.OutputDpiX = ResolvedPrimaryDpi
        /\ ws.OutputDpiY = ResolvedPrimaryDpi
        /\ ~last.failed =>
              /\ ws.BackBufferMemory # NULL
              /\ ws.BackBufferWidth = (InitialClientX * ResolvedPrimaryDpi) \div 96
              /\ ws.BackBufferHeight = (InitialClientY * ResolvedPrimaryDpi) \div 96
              /\ ws.BackBufferStride = 4 * ws.BackBufferWidth
              /\ ResolvedPrimaryDpi = 96 =>
                    /\ ws.BackBufferWidth = 800
                    /\ ws.BackBufferHeight = 600
                    /\ ws.BackBufferStride = 3200
        /\ last.failed => ws.BackBufferMemory = NULL

C12_Witness ==
    /\ last.msg = "WM_CREATE"
    /\ ~last.failed
    /\ ws.BackBufferWidth = 1200
    /\ "WM_SIZE" \in Range(last.trace)

C12_WitnessBaseline ==
    /\ last.msg = "WM_CREATE"
    /\ ws.BackBufferStride = 3200

(***************************************************************************)
(* The geometry converter at its full width.  A uint32_t is the pair of    *)
(* its 16-bit halves [hi, lo]; the product with a factor below 2^15 is     *)
(* truncated to 32 bits as the C multiplication of two unsigned operands   *)
(* is, the quotient by a divisor below 2^15 is exact.                      *)
(***************************************************************************)
Half == 65536
MaxConvDim == 40

ToU32(n) == [hi |-> n \div Half, lo |-> n % Half]

MulU32(v, k) ==
    [hi |-> (v.hi * k + (v.lo * k) \div Half) % Half, lo |-> (v.lo * k) % Half]

DivU32(v, k) ==
    [hi |-> v.hi \div k, lo |-> ((v.hi % k) * Half + v.lo) \div k]

(* The product v * k is below 2^32. *)
FitsU32(v, k) == v.hi * k + (v.lo * k) \div Half < Half

LeU32(a, b) == a.hi < b.hi \/ (a.hi = b.hi /\ a.lo <= b.lo)

PredU32(v) ==
    IF v.lo > 0 THEN [v EXCEPT !.lo = @ - 1] ELSE [hi |-> v.hi - 1, lo |-> Half - 1]

PhysicalToLogicalPixels32(dim, dpi) == DivU32(MulU32(dim, USER_DEFAULT_SCREEN_DPI), dpi)

(* A variant that divides before it multiplies. *)
LogicalToPhysicalPixels32_DividesFirst(dim, dpi) ==
    MulU32(DivU32(dim, USER_DEFAULT_SCREEN_DPI), dpi)

LogicalToPhysicalPixels32(dim, dpi) == DivU32(MulU32(dim, dpi), USER_DEFAULT_SCREEN_DPI)

(* Inputs of the converter: small dimensions, display sizes, and           *)
(* dimensions on both sides of the point where dim * dpi reaches 2^32.     *)
ConvDims ==
    {ToU32(n) : n \in 1..MaxConvDim}
    \cup {ToU32(n) : n \in {533, 600, 800, 1080, 1920, 65535, 65536}}
    \cup {ToU32(n) : n \in {14913080, 14913081, 44739242, 44739243}}
    \cup {[hi |-> 32768, lo |-> 0], [hi |-> 65535, lo |-> 65535]}
ConvDpis == {96, 120, 144, 192, 288}

ConvInit ==
    /\ ws = InitialWindowState(ResolveApi(FALSE, FALSE, FALSE))
    /\ win = NoWindow
    /\ desk = [dpi |-> [m \in Monitors |-> USER_DEFAULT_SCREEN_DPI],
               sysDpi |-> USER_DEFAULT_SCREEN_DPI]
    /\ heap = EmptyHeap
    /\ hist = [allocFailed |-> FALSE, closed |-> FALSE, drainExit |-> "none",
               pending |-> NoSize,
               snapshot |-> NoSnapshot, msgs |-> 0, pre |-> NoRoundTrip]
    /\ pc = "convert"
    /\ \E d \in ConvDims, dpi \in ConvDpis :
         last = [msg |-> "input", dim |-> d, dpi |-> dpi,
                 phys |-> ToU32(0), back |-> ToU32(0)]

Convert ==
    /\ pc = "convert"
    /\ pc' = "converted"
    /\ last' = [last EXCEPT
                  !.msg  = "converted",
                  !.phys = LogicalToPhysicalPixels32(last.dim, last.dpi),
                  !.back = PhysicalToLogicalPixels32(
                               LogicalToPhysicalPixels32(last.dim, last.dpi), last.dpi)]
    /\ UNCHANGED <<ws, win, desk, heap, hist>>

ConvSpec == ConvInit /\ [][Convert]_vars

(* C13, as claimed: for every positive logical dimension d and every DPI   *)
(* p >= 96, PhysicalToLogical(LogicalToPhysical(d, p), p) is d or d - 1,   *)
(* and at p = 96 both conversions are the identity.                        *)
RoundTripWithinOne ==
    /\ LeU32(last.back, last.dim)
    /\ LeU32(PredU32(last.dim), last.back)
    /\ last.dpi = USER_DEFAULT_SCREEN_DPI =>
          /\ last.phys = last.dim
          /\ last.back = last.dim

DpiOutcomes == DpiValues \cup {0}

DpiInit ==
    /\ \E shcore \in BOOLEAN, hasGetDpi \in BOOLEAN, hasSetAwareness \in BOOLEAN :
         ws = InitialWindowState(ResolveApi(shcore, hasGetDpi, hasSetAwareness))
    /\ \E d \in [Monitors -> DpiOutcomes], s \in DpiOutcomes :
         desk = [dpi |-> d, sysDpi |-> s]
    /\ \E p \in Positions :
         win = [NoWindow EXCEPT !.exists = TRUE, !.assoc = TRUE,
                                !.rect = Rect(p.x, p.y, p.x + InitialClientX,
                                              p.y + InitialClientY)]
    /\ heap = EmptyHeap
    /\ hist = [allocFailed |-> FALSE, closed |-> FALSE, drainExit |-> "none",
               pending |-> NoSize,
               snapshot |-> NoSnapshot, msgs |-> 0, pre |-> NoRoundTrip]
    /\ pc = "resolve"
    /\ last = [msg |-> "query", monitor |-> NULL, dpi |-> [x |-> 0, y |-> 0]]

Resolve ==
    /\ pc = "resolve"
    /\ pc' = "resolved"
    /\ last' = [msg |-> "resolved",
                monitor |-> MonitorFromWindow(World(<<>>)),
                dpi |-> GetDpiForMonitor(World(<<>>), MonitorFromWindow(World(<<>>)))]
    /\ UNCHANGED <<ws, win, desk, heap, hist>>

DpiSpec == DpiInit /\ [][Resolve]_vars

(* C14: whatever the platform queries answer, the DPI pair a handler holds *)
(* after calling the resolver has two non-zero components, and it is the   *)
(* baseline 96 x 96 when no density could be obtained (the per-monitor     *)
(* query failed, or the stub found no density for the primary display).    *)
NoDensityObtained ==
    IF ws.Win32Api.GetDpiForMonitor = "stub" THEN desk.sysDpi = 0
    ELSE desk.dpi[last.monitor] = 0

C14_ResolvedDpiUsable ==
    last.msg = "resolved" =>
        /\ last.dpi.x # 0
        /\ last.dpi.y # 0
        /\ NoDensityObtained => last.dpi = [x |-> 96, y |-> 96]

(***************************************************************************)
(* Handler contracts, stated over the log of the handlers run by the last  *)
(* step: each entry holds the message, the window state and the window     *)
(* before and after the handler, the events it raised and what it did.     *)
(***************************************************************************)
Handled(msg) == {i \in DOMAIN last.hlog : last.hlog[i].msg = msg}

(* The DPI pair the handler of entry e resolved on entry. *)
EntryDpi(e) ==
    LET w == [ws |-> e.pre, win |-> e.win, mon |-> e.mon, sysDpi |-> e.sysDpi]
    IN  GetDpiForMonitor(w, MonitorFromWindow(w))

SizeHidden(e) == e.wparam \in {"SIZE_MINIMIZED", "SIZE_MAXHIDE"}

SizeUnchanged(e) ==
    /\ PhysicalToLogicalPixels(e.lparam.lo, EntryDpi(e).x) = e.pre.ClientSizeX
    /\ PhysicalToLogicalPixels(e.lparam.hi, EntryDpi(e).y) = e.pre.ClientSizeY

(* C15: a Size notification that carries a minimized/hidden code, or       *)
(* client dimensions equal to the current client size, changes only the    *)
(* Visible status bit (cleared when hidden, set otherwise): no event is    *)
(* raised, no other field of the window state changes, the window is not   *)
(* touched and ResizeBackBuffer is not entered.                            *)
C15_SizeNoChange ==
    \A i \in Handled("WM_SIZE") :
        LET e == last.hlog[i]
        IN  (SizeHidden(e) \/ SizeUnchanged(e)) =>
                /\ e.post = [e.pre EXCEPT !.StatusFlags =
                                IF SizeHidden(e) THEN @ \ {STATUS_VISIBLE}
                                ELSE @ \cup {STATUS_VISIBLE}]
                /\ e.raised = {}
                /\ e.ops = <<"WM_SIZE">>
                /\ e.after = e.win

(* A minimize notification in a visible window. *)
C15_Witness ==
    \E i \in Handled("WM_SIZE") :
        /\ SizeHidden(last.hlog[i])
        /\ STATUS_VISIBLE \in last.hlog[i].pre.StatusFlags
        /\ STATUS_VISIBLE \notin last.hlog[i].post.StatusFlags

(* A notification with new physical dimensions but the current logical size. *)
C15_WitnessUnchanged ==
    \E i \in Handled("WM_SIZE") :
        /\ ~SizeHidden(last.hlog[i])
        /\ SizeUnchanged(last.hlog[i])
        /\ last.hlog[i].lparam.lo # last.hlog[i].pre.BackBufferWidth
        /\ last.hlog[i].pre.BackBufferMemory # NULL

(* The physical client size the window state holds on entry, by either     *)
(* account of it: the size of the backbuffer, and the stored logical size  *)
(* at the stored DPI.                                                      *)
SizeDiffers(e) ==
    /\ e.pre.BackBufferMemory # NULL
    /\ \/ e.lparam.lo # e.pre.BackBufferWidth
       \/ e.lparam.hi # e.pre.BackBufferHeight
    /\ \/ e.lparam.lo # LogicalToPhysicalPixels(e.pre.ClientSizeX, e.pre.OutputDpiX)
       \/ e.lparam.hi # LogicalToPhysicalPixels(e.pre.ClientSizeY, e.pre.OutputDpiY)

(* C16: a Size notification with a non-minimized code whose physical       *)
(* client dimensions differ from the current physical client size resizes  *)
(* the backbuffer to the carried dimensions (no allocation failing),       *)
(* stores the recomputed logical client size, window size, position and    *)
(* DPI, sets Visible and raises SizeChanged, plus Shown when the code is   *)
(* 'restored'.                                                             *)
C16_SizeChanged ==
    \A i \in Handled("WM_SIZE") :
        LET e == last.hlog[i]
        IN  (/\ ~SizeHidden(e)
             /\ SizeDiffers(e)
             /\ "alloc-fail" \notin Range(e.ops)) =>
                /\ e.post.BackBufferWidth = e.lparam.lo
                /\ e.post.BackBufferHeight = e.lparam.hi
                /\ e.post.ClientSizeX = PhysicalToLogicalPixels(e.lparam.lo, EntryDpi(e).x)
                /\ e.post.ClientSizeY = PhysicalToLogicalPixels(e.lparam.hi, EntryDpi(e).y)
                /\ e.post.WindowSizeX =
                       PhysicalToLogicalPixels(RectW(e.win.rect), EntryDpi(e).x)
                /\ e.post.WindowSizeY =
                       PhysicalToLogicalPixels(RectH(e.win.rect), EntryDpi(e).y)
                /\ e.post.PositionX = e.win.rect.left
                /\ e.post.PositionY = e.win.rect.top
                /\ e.post.OutputDpiX = EntryDpi(e).x
                /\ e.post.OutputDpiY = EntryDpi(e).y
                /\ STATUS_VISIBLE \in e.post.StatusFlags
                /\ EVENT_SIZE_CHANGED \in e.raised
                /\ e.wparam = "SIZE_RESTORED" => EVENT_SHOWN \in e.raised

DpiWindowed(e) == e.msg = "WM_DPICHANGED" /\ WS_POPUP \notin e.win.style

(* The outer rectangle the handler asks for: the suggested origin with the *)
(* physical client size at the new DPI, adjusted for decoration.           *)
DpiTarget(e) ==
    AdjustWindowRectEx(
        Rect(e.lparam.left, e.lparam.top,
             e.lparam.left + LogicalToPhysicalPixels(e.pre.ClientSizeX, e.wparam.lo),
             e.lparam.top + LogicalToPhysicalPixels(e.pre.ClientSizeY, e.wparam.hi)),
        e.win.style, e.win.exStyle)

WindowMoved(e) ==
    e.after.rect.left # e.win.rect.left \/ e.after.rect.top # e.win.rect.top

(* C17: a DPI-changed notification in a decorated (non-popup) window       *)
(* stores the new DPI, moves/resizes the outer window to the suggested     *)
(* rectangle adjusted for decoration, resizes the backbuffer to            *)
(* LogicalToPhysical(stored logical client size, new DPI), always raises   *)
(* SizeChanged, and raises PositionChanged if and only if the window's     *)
(* position actually moved.                                                *)
C17_DpiChangedWindowed ==
    \A i \in Handled("WM_DPICHANGED") :
        LET e == last.hlog[i]
        IN  (DpiWindowed(e) /\ "alloc-fail" \notin Range(e.ops)) =>
                /\ e.post.OutputDpiX = e.wparam.lo
                /\ e.post.OutputDpiY = e.wparam.hi
                /\ e.after.rect = DpiTarget(e)
                /\ e.post.BackBufferWidth =
                       LogicalToPhysicalPixels(e.pre.ClientSizeX, e.wparam.lo)
                /\ e.post.BackBufferHeight =
                       LogicalToPhysicalPixels(e.pre.ClientSizeY, e.wparam.hi)
                /\ EVENT_SIZE_CHANGED \in e.raised
                /\ EVENT_POSITION_CHANGED \in e.raised <=> WindowMoved(e)

DpiFullscreen(e) == e.msg = "WM_DPICHANGED" /\ WS_POPUP \in e.win.style

EntryMonitor(e) == MonitorFromWindow([win |-> e.win])

(* C18: a DPI-changed notification in a borderless popup window takes its  *)
(* geometry from the hosting monitor's full rectangle: the stored position *)
(* is the monitor's origin, the stored window size is                      *)
(* PhysicalToLogical(monitor size, new DPI), the window is not moved or    *)
(* resized, and (no allocation failing) the backbuffer the handler leaves  *)
(* has the size of the monitor-filling client area.                        *)
C18_DpiChangedFullscreen ==
    \A i \in Handled("WM_DPICHANGED") :
        LET e == last.hlog[i]
        IN  (DpiFullscreen(e) /\ "alloc-fail" \notin Range(e.ops)) =>
                /\ e.post.OutputDpiX = e.wparam.lo
                /\ e.post.OutputDpiY = e.wparam.hi
                /\ e.post.PositionX = rcMonitor(EntryMonitor(e)).left
                /\ e.post.PositionY = rcMonitor(EntryMonitor(e)).top
                /\ e.post.WindowSizeX = PhysicalToLogicalPixels(MonitorW, e.wparam.lo)
                /\ e.post.WindowSizeY = PhysicalToLogicalPixels(MonitorH, e.wparam.hi)
                /\ e.after = e.win
                /\ e.post.BackBufferWidth = RectW(e.after.client)
                /\ e.post.BackBufferHeight = RectH(e.after.client)

(* The same without the backbuffer: the part of C18 the handler keeps. *)
C18_GeometryFromMonitor ==
    \A i \in Handled("WM_DPICHANGED") :
        LET e == last.hlog[i]
        IN  DpiFullscreen(e) =>
                /\ e.post.PositionX = rcMonitor(EntryMonitor(e)).left
                /\ e.post.PositionY = rcMonitor(EntryMonitor(e)).top
                /\ e.post.WindowSizeX = PhysicalToLogicalPixels(MonitorW, e.wparam.lo)
                /\ e.post.WindowSizeY = PhysicalToLogicalPixels(MonitorH, e.wparam.hi)
                /\ e.after = e.win

(* C19: between two dispatches, while the window is shown and not          *)
(* minimized, the stored logical client size is the window's physical      *)
(* client size converted at the stored DPI:                                *)
(* PhysicalToLogical(physical client size, OutputDpi) = ClientSize.        *)
C19_LogicalPhysicalConsistent ==
    (Shown(win) /\ ~Minimized(win) /\ ~hist.closed) =>
        /\ PhysicalToLogicalPixels(RectW(win.client), ws.OutputDpiX) = ws.ClientSizeX
        /\ PhysicalToLogicalPixels(RectH(win.client), ws.OutputDpiY) = ws.ClientSizeY

Toggles ==
    {i \in Handled("WM_SYSCOMMAND") :
        last.hlog[i].wparam = "SC_KEYMENU" /\ last.hlog[i].lparam = "VK_RETURN"}

(* What a toggle from windowed does: the restore fields hold the window's  *)
(* rectangle and styles as they were on entry, the window is a borderless  *)
(* popup covering its monitor, and the Fullscreen flag is set.             *)
EntersFullscreen(e) ==
    /\ e.post.RestoreRect = e.win.rect
    /\ e.post.RestoreStyle = e.win.style
    /\ e.post.RestoreStyleEx = e.win.exStyle
    /\ WS_POPUP \in e.after.style
    /\ ~Decorated(e.after.style)
    /\ e.after.rect = rcMonitor(EntryMonitor(e))
    /\ STATUS_FULLSCREEN \in e.post.StatusFlags

(* What a toggle in fullscreen does: the window has the rectangle and      *)
(* styles of the snapshot, and the Fullscreen flag is clear.               *)
LeavesFullscreen(e) ==
    /\ e.after.rect = e.pre.RestoreRect
    /\ e.after.style = e.pre.RestoreStyle
    /\ e.after.exStyle = e.pre.RestoreStyleEx
    /\ STATUS_FULLSCREEN \notin e.post.StatusFlags

(* C20: a fullscreen toggle from windowed captures the window's rectangle, *)
(* style and extended style before changing them, switches to the          *)
(* borderless popup style sized to the monitor and sets Fullscreen; a      *)
(* toggle while Fullscreen is set restores style, extended style and       *)
(* rectangle from the snapshot and clears the flag.  Either way the        *)
(* Fullscreen flag flips exactly once.                                     *)
C20_FullscreenToggle ==
    \A i \in Toggles :
        LET e == last.hlog[i]
        IN  IF STATUS_FULLSCREEN \in e.pre.StatusFlags
            THEN LeavesFullscreen(e)
            ELSE EntersFullscreen(e)

(* The part of C20 that holds for every toggle: the capture, the popup     *)
(* style and size, and the flip of the flag.                               *)
C20_CaptureAndFlip ==
    \A i \in Toggles :
        LET e == last.hlog[i]
        IN  IF STATUS_FULLSCREEN \in e.pre.StatusFlags
            THEN /\ STATUS_FULLSCREEN \notin e.post.StatusFlags
                 /\ Maximized([style |-> e.pre.RestoreStyle]) \/ LeavesFullscreen(e)
            ELSE EntersFullscreen(e)

ActivateStatus(e) ==
    LET s1 == IF e.wparam.active # 0
              THEN e.pre.StatusFlags \cup {STATUS_ACTIVE, STATUS_VISIBLE}
              ELSE e.pre.StatusFlags \ {STATUS_ACTIVE}
    IN  IF e.wparam.minimized THEN s1 \ {STATUS_VISIBLE} ELSE s1

ActivateEvents(e) ==
    (IF e.wparam.active # 0 THEN {EVENT_ACTIVATED} ELSE {EVENT_DEACTIVATED})
        \cup (IF e.wparam.minimized THEN {EVENT_HIDDEN} ELSE {})

(* C21: an Activate notification with 'active' set sets Active and Visible *)
(* and raises Activated; with 'active' clear it clears Active and raises   *)
(* Deactivated; with 'minimized' set it then clears Visible and raises     *)
(* Hidden, so Visible is clear after any Activate carrying the minimized   *)
(* indicator.  Nothing else changes: Created, Fullscreen, geometry, DPI,   *)
(* the backbuffer and the window are as they were.                         *)
C21_ActivateTransition ==
    \A i \in Handled("WM_ACTIVATE") :
        LET e == last.hlog[i]
        IN  /\ e.post = [e.pre EXCEPT !.StatusFlags = ActivateStatus(e),
                                      !.EventFlags = @ \cup ActivateEvents(e)]
            /\ e.raised = ActivateEvents(e)
            /\ e.wparam.minimized => STATUS_VISIBLE \notin e.post.StatusFlags
            /\ e.ops = <<"WM_ACTIVATE">>
            /\ e.after = e.win

(* An activation of a minimized window. *)
C21_Witness ==
    \E i \in Handled("WM_ACTIVATE") :
        /\ last.hlog[i].wparam.active # 0
        /\ last.hlog[i].wparam.minimized
        /\ STATUS_ACTIVE \in last.hlog[i].post.StatusFlags
        /\ STATUS_VISIBLE \notin last.hlog[i].post.StatusFlags

(* A deactivation of a window that is not minimized. *)
C21_WitnessDeactivate ==
    \E i \in Handled("WM_ACTIVATE") :
        /\ last.hlog[i].wparam.active = 0
        /\ ~last.hlog[i].wparam.minimized
        /\ STATUS_ACTIVE \in last.hlog[i].pre.StatusFlags
        /\ STATUS_VISIBLE \in last.hlog[i].post.StatusFlags

Shows == {i \in Handled("WM_SHOWWINDOW") : last.hlog[i].wparam}
Hides == {i \in Handled("WM_SHOWWINDOW") : ~last.hlog[i].wparam}

(* The window state a Show notification leaves, the backbuffer aside. *)
ShowGeometry(e) ==
    [e.pre EXCEPT
        !.StatusFlags = @ \cup {STATUS_VISIBLE},
        !.EventFlags  = @ \cup {EVENT_SHOWN},
        !.PositionX   = e.win.rect.left,
        !.PositionY   = e.win.rect.top,
        !.WindowSizeX = PhysicalToLogicalPixels(RectW(e.win.rect), EntryDpi(e).x),
        !.WindowSizeY = PhysicalToLogicalPixels(RectH(e.win.rect), EntryDpi(e).y),
        !.ClientSizeX = PhysicalToLogicalPixels(RectW(e.win.client), EntryDpi(e).x),
        !.ClientSizeY = PhysicalToLogicalPixels(RectH(e.win.client), EntryDpi(e).y),
        !.OutputDpiX  = EntryDpi(e).x,
        !.OutputDpiY  = EntryDpi(e).y]

SameButBackBuffer(s, t) ==
    s = [t EXCEPT !.BackBufferMemory = s.BackBufferMemory,
                  !.BackBufferWidth  = s.BackBufferWidth,
                  !.BackBufferHeight = s.BackBufferHeight,
                  !.BackBufferStride = s.BackBufferStride,
                  !.BackBufferInfo   = s.BackBufferInfo]

HasSize(s, x, y) ==
    s.BackBufferMemory # NULL /\ s.BackBufferWidth = x /\ s.BackBufferHeight = y

(* C22: a Show notification sets Visible, raises Shown, stores the origin  *)
(* of the window rectangle, the resolved DPI and the logical window and    *)
(* client sizes converted from the physical rectangles at that DPI, and    *)
(* resizes the backbuffer to the physical client size: nothing is          *)
(* allocated when the backbuffer has that size already, and otherwise the  *)
(* backbuffer has that size afterwards unless the allocation failed.       *)
C22_ShowTransition ==
    \A i \in Shows :
        LET e == last.hlog[i]
            x == RectW(e.win.client)
            y == RectH(e.win.client)
        IN  /\ SameButBackBuffer(e.post, ShowGeometry(e))
            /\ e.raised = {EVENT_SHOWN}
            /\ e.after = e.win
            /\ IF HasSize(e.pre, x, y)
               THEN e.ops = <<"WM_SHOWWINDOW", "resize-noop">>
                    /\ BackBuffer(e.post) = BackBuffer(e.pre)
               ELSE IF "alloc-fail" \in Range(e.ops)
               THEN BackBuffer(e.post) = BackBuffer(e.pre)
               ELSE HasSize(e.post, x, y) /\ "alloc" \in Range(e.ops)

(* A Show that finds no backbuffer and allocates one. *)
C22_Witness ==
    \E i \in Shows :
        /\ last.hlog[i].pre.BackBufferMemory = NULL
        /\ last.hlog[i].post.BackBufferMemory # NULL
        /\ STATUS_VISIBLE \notin last.hlog[i].pre.StatusFlags

(* A Show that finds the backbuffer at the client size. *)
C22_WitnessNoop ==
    \E i \in Shows :
        /\ "resize-noop" \in Range(last.hlog[i].ops)
        /\ last.hlog[i].pre.OutputDpiX = 144

(* C23: a Hide notification clears Visible and Active, raises Hidden and   *)
(* Deactivated, and changes nothing else: Created and Fullscreen status,   *)
(* position, sizes, DPI, the backbuffer and the window are as they were.   *)
C23_HideTransition ==
    \A i \in Hides :
        LET e == last.hlog[i]
        IN  /\ e.post = [e.pre EXCEPT
                            !.StatusFlags = @ \ {STATUS_VISIBLE, STATUS_ACTIVE},
                            !.EventFlags  = @ \cup {EVENT_HIDDEN, EVENT_DEACTIVATED}]
            /\ e.raised = {EVENT_HIDDEN, EVENT_DEACTIVATED}
            /\ e.ops = <<"WM_SHOWWINDOW">>
            /\ e.after = e.win

(* A fullscreen, active, visible window with a backbuffer is hidden. *)
C23_Witness ==
    \E i \in Hides :
        /\ {STATUS_VISIBLE, STATUS_ACTIVE, STATUS_FULLSCREEN, STATUS_CREATED}
               \subseteq last.hlog[i].pre.StatusFlags
        /\ last.hlog[i].pre.BackBufferMemory # NULL
        /\ STATUS_FULLSCREEN \in last.hlog[i].post.StatusFlags

(* C24: a Move notification re-resolves the DPI, stores it with the origin *)
(* of the window rectangle and the logical window size at that DPI, raises *)
(* PositionChanged, and changes nothing else: the status flags, the client *)
(* size and the backbuffer are as they were and nothing is allocated.      *)
C24_MoveTransition ==
    \A i \in Handled("WM_MOVE") :
        LET e == last.hlog[i]
        IN  /\ e.post = [e.pre EXCEPT
                !.EventFlags  = @ \cup {EVENT_POSITION_CHANGED},
                !.PositionX   = e.win.rect.left,
                !.PositionY   = e.win.rect.top,
                !.WindowSizeX = PhysicalToLogicalPixels(RectW(e.win.rect), EntryDpi(e).x),
                !.WindowSizeY = PhysicalToLogicalPixels(RectH(e.win.rect), EntryDpi(e).y),
                !.OutputDpiX  = EntryDpi(e).x,
                !.OutputDpiY  = EntryDpi(e).y]
            /\ e.raised = {EVENT_POSITION_CHANGED}
            /\ e.ops = <<"WM_MOVE">>
            /\ e.after = e.win

(* A Move that finds the window on a monitor of another DPI. *)
C24_Witness ==
    \E i \in Handled("WM_MOVE") :
        /\ last.hlog[i].post.OutputDpiX # last.hlog[i].pre.OutputDpiX
        /\ last.hlog[i].post.PositionX # last.hlog[i].pre.PositionX
        /\ last.hlog[i].pre.BackBufferMemory # NULL

(* A Size notification of the step just taken that is not minimized, finds *)
(* the window state and the heap as the previous step left them, and       *)
(* carries the size whose resize failed and is still pending.              *)
RetriesPending(e) ==
    /\ e.msg = "WM_SIZE"
    /\ ~SizeHidden(e)
    /\ e.pre = ws
    /\ hist.pending # NoSize
    /\ e.lparam.lo = hist.pending.x
    /\ e.lparam.hi = hist.pending.y

(* C25: after a backbuffer resize issued by a handler has failed, the      *)
(* previous buffer stays and the size is not taken as applied: a later     *)
(* Size notification carrying the same size calls the allocator again.     *)
C25_FailedResizeIsRetried ==
    [][\A i \in DOMAIN last'.hlog :
           RetriesPending(last'.hlog[i]) =>
               /\ \/ "alloc" \in Range(last'.hlog[i].ops)
                  \/ "alloc-fail" \in Range(last'.hlog[i].ops)]_vars

(* C26: event tags are consumed per tick: when a tick of the loop has run  *)
(* and the next drain is about to start, no event tag raised before that   *)
(* tick is still set.                                                      *)
C26_EventsConsumedPerTick ==
    last.msg = "tick" => ws.EventFlags = {}

(* C27: when window creation fails, wWinMain returns the platform's       *)
(* last-error code, and that is the end of the program: no window exists,  *)
(* nothing was allocated, shown or presented, and no step follows.         *)
C27_CreateFailureExits ==
    /\ [](pc = "failed" =>
            /\ last.msg = "CreateWindowEx-failed"
            /\ last.ret = last.lastError
            /\ last.ret # 0
            /\ last.blits = <<>>
            /\ win = NoWindow
            /\ heap = EmptyHeap
            /\ ws.StatusFlags = {})
    /\ [][pc # "failed"]_vars

C27_Witness ==
    pc = "failed" /\ last.ret = 1407

(* C28: every run of a handler other than Create and Close leaves in the   *)
(* event flags every tag it found, plus the tags it raised; so from a      *)
(* Close until the loop's test, whatever else is dispatched, Destroyed     *)
(* stays set.                                                              *)
C28_EventsAccumulate ==
    /\ \A i \in DOMAIN last.hlog :
           last.hlog[i].msg \notin {"WM_CREATE", "WM_CLOSE"} =>
               last.hlog[i].post.EventFlags =
                   last.hlog[i].pre.EventFlags \cup last.hlog[i].raised
    /\ hist.closed => EVENT_DESTROYED \in ws.EventFlags

(* A notification dispatched after Close in the same drain. *)
C28_Witness ==
    /\ hist.closed
    /\ pc = "drain"
    /\ last.msg = "WM_DPICHANGED"
    /\ \E i \in Handled("WM_DPICHANGED") :
           /\ EVENT_DESTROYED \in last.hlog[i].pre.EventFlags
           /\ last.hlog[i].raised # {}

(* C29: a paint request with a backbuffer makes exactly one blit, to a     *)
(* destination of LogicalToPhysical(ClientSize, OutputDpi) from a source   *)
(* of the backbuffer's width and height, and returns 0; without a          *)
(* backbuffer it makes no blit and calls the default handler.  Either way  *)
(* the window state, the window and the heap are as they were.             *)
PaintBlit(s) ==
    [via   |-> "paint",
     dst_w |-> I32(LogicalToPhysicalPixels(s.ClientSizeX, s.OutputDpiX)),
     dst_h |-> I32(LogicalToPhysicalPixels(s.ClientSizeY, s.OutputDpiY)),
     src_w |-> I32(s.BackBufferWidth),
     src_h |-> I32(s.BackBufferHeight),
     mem   |-> s.BackBufferMemory,
     hdr   |-> s.BackBufferInfo]

C29_PaintTransition ==
    /\ [](last.msg = "WM_PAINT" =>
            /\ Len(last.hlog) = 1
            /\ last.hlog[1].msg = "WM_PAINT"
            /\ last.hlog[1].post = last.hlog[1].pre
            /\ last.hlog[1].after = last.hlog[1].win
            /\ last.hlog[1].post = ws
            /\ last.calls = <<>>
            /\ IF ws.BackBufferMemory # NULL
               THEN /\ last.blits = <<PaintBlit(ws)>>
                    /\ last.trace = <<"WM_PAINT">>
                    /\ last.ret = 0
               ELSE /\ last.blits = <<>>
                    /\ last.trace = <<"WM_PAINT", "DefWindowProc">>)
    /\ [][last'.msg = "WM_PAINT" => ws' = ws /\ win' = win /\ heap' = heap]_vars

(* A paint at a DPI other than 96, where the destination is scaled. *)
C29_Witness ==
    /\ last.msg = "WM_PAINT"
    /\ ws.BackBufferMemory # NULL
    /\ ws.OutputDpiX # USER_DEFAULT_SCREEN_DPI
    /\ last.blits = <<PaintBlit(ws)>>
    /\ last.blits[1].dst_w # ws.ClientSizeX

(* A paint of a window that has no backbuffer. *)
C29_WitnessDeferred ==
    /\ last.msg = "WM_PAINT"
    /\ ws.BackBufferMemory = NULL
    /\ last.blits = <<>>

(***************************************************************************)
(* Startup of wWinMain, call by call, up to the creation of the window.    *)
(* The locals of wWinMain are held in last: win32 is the dispatch table    *)
(* (uninitialized on entry, here "unset"), platform what the host offers,  *)
(* calls the platform calls made so far, in order.  ws is not read before  *)
(* it is initialized.                                                      *)
(***************************************************************************)
UnsetApi == [GetDpiForMonitor |-> "unset", SetProcessDpiAwareness |-> "unset"]

NoPlatform == [shcore |-> FALSE, hasGetDpi |-> FALSE, hasSetAwareness |-> FALSE]

StartInit ==
    /\ ws = InitialWindowState(UnsetApi)
    /\ win = NoWindow
    /\ desk = [dpi |-> [m \in Monitors |-> USER_DEFAULT_SCREEN_DPI],
               sysDpi |-> USER_DEFAULT_SCREEN_DPI]
    /\ heap = EmptyHeap
    /\ hist = [allocFailed |-> FALSE, closed |-> FALSE, drainExit |-> "none",
               pending |-> NoSize,
               snapshot |-> NoSnapshot, msgs |-> 0, pre |-> NoRoundTrip]
    /\ pc = "load"
    /\ last = [msg |-> "wWinMain", win32 |-> UnsetApi, platform |-> NoPlatform,
               calls |-> <<>>, hresult |-> "none", ret |-> 0]

(* The platform calls made through the SetProcessDpiAwareness entry. *)
SetProcessDpiAwareness(api) ==
    IF api.SetProcessDpiAwareness = "native" THEN <<"SetProcessDpiAwareness">>
    ELSE IF api.SetProcessDpiAwareness = "stub" THEN <<"SetProcessDPIAware">>
    ELSE <<"call-through-unset-pointer">>

(* LoadLibraryW and the two GetProcAddress calls. *)
LoadShcore ==
    /\ pc = "load"
    /\ \E shcore \in BOOLEAN, hasGetDpi \in BOOLEAN, hasSetAwareness \in BOOLEAN :
         last' = [last EXCEPT
                    !.msg = "LoadLibraryW",
                    !.platform = [shcore |-> shcore, hasGetDpi |-> hasGetDpi,
                                  hasSetAwareness |-> hasSetAwareness],
                    !.win32 = ResolveApi(shcore, hasGetDpi, hasSetAwareness),
                    !.calls = @ \o (IF shcore
                                    THEN <<"LoadLibraryW", "GetProcAddress",
                                           "GetProcAddress">>
                                    ELSE <<"LoadLibraryW">>)]
    /\ pc' = "awareness"
    /\ UNCHANGED <<ws, win, desk, heap, hist>>

(* win32.SetProcessDpiAwareness(PROCESS_PER_MONITOR_DPI_AWARE); the result *)
(* is not looked at.                                                       *)
DeclareDpiAwareness ==
    /\ pc = "awareness"
    /\ \E hr \in {"S_OK", "E_ACCESSDENIED"} :
         last' = [last EXCEPT !.msg = "SetProcessDpiAwareness",
                              !.hresult = hr,
                              !.calls = @ \o SetProcessDpiAwareness(last.win32)]
    /\ pc' = "class"
    /\ UNCHANGED <<ws, win, desk, heap, hist>>

(* GetClassInfoEx, and RegisterClassEx when the class is not known; a      *)
(* failed registration is not acted upon.                                  *)
LookupClass ==
    /\ pc = "class"
    /\ \E known \in BOOLEAN, registers \in BOOLEAN :
         /\ known => registers
         /\ last' = [last EXCEPT
                       !.msg = IF known THEN "GetClassInfoEx"
                               ELSE IF registers THEN "RegisterClassEx"
                               ELSE "RegisterClassEx-failed",
                       !.calls = @ \o (IF known THEN <<"GetClassInfoEx">>
                                       ELSE <<"GetClassInfoEx", "RegisterClassEx">>)]
    /\ pc' = "monitor"
    /\ UNCHANGED <<ws, win, desk, heap, hist>>

(* QueryMonitorGeometry(&moninfo, nullptr) and the initialization of ws. *)
InitWindowState ==
    /\ pc = "monitor"
    /\ last' = [last EXCEPT !.msg = "QueryMonitorGeometry",
                            !.calls = Append(@, "QueryMonitorGeometry")]
    /\ ws' = InitialWindowState(last.win32)
    /\ pc' = "window"
    /\ UNCHANGED <<win, desk, heap, hist>>

(* CreateWindowEx: the window, or the last-error code as exit code. *)
StartCreateWindow ==
    /\ pc = "window"
    /\ \/ /\ pc' = "created"
          /\ last' = [last EXCEPT !.msg = "CreateWindowEx",
                                  !.calls = Append(@, "CreateWindowEx")]
       \/ /\ pc' = "failed"
          /\ \E err \in LastErrors :
               last' = [last EXCEPT !.msg = "CreateWindowEx-failed",
                                    !.calls = Append(@, "CreateWindowEx"),
                                    !.ret = CreateFailedExit(err)]
    /\ UNCHANGED <<ws, win, desk, heap, hist>>

StartNext ==
    \/ LoadShcore
    \/ DeclareDpiAwareness
    \/ LookupClass
    \/ InitWindowState
    \/ StartCreateWindow

StartSpec == StartInit /\ [][StartNext]_vars

(* C30: once the table is resolved each entry is callable: the Shcore      *)
(* entry point when Shcore.dll and that symbol exist, the stub otherwise,  *)
(* whatever the other symbol does; the table handed to the window state is *)
(* that table; and DPI awareness is declared exactly once, earlier than    *)
(* any class lookup or registration, monitor query or window creation.     *)
Declarations == {"SetProcessDpiAwareness", "SetProcessDPIAware"}

WindowCalls ==
    {"GetClassInfoEx", "RegisterClassEx", "QueryMonitorGeometry", "CreateWindowEx"}

Declared(calls) == {i \in DOMAIN calls : calls[i] \in Declarations}

EntryFor(present) == IF present THEN "native" ELSE "stub"

C30_CapabilityResolution ==
    /\ pc # "load" =>
         /\ last.win32.GetDpiForMonitor =
                EntryFor(last.platform.shcore /\ last.platform.hasGetDpi)
         /\ last.win32.SetProcessDpiAwareness =
                EntryFor(last.platform.shcore /\ last.platform.hasSetAwareness)
    /\ pc \in {"window", "created", "failed"} => ws.Win32Api = last.win32
    /\ pc \notin {"load", "awareness"} => Cardinality(Declared(last.calls)) = 1
    /\ \A j \in DOMAIN last.calls :
           last.calls[j] \in WindowCalls =>
               \E i \in Declared(last.calls) : i < j
    /\ "call-through-unset-pointer" \notin Range(last.calls)

(* Shcore.dll exports one of the two symbols only, and the window exists. *)
C30_Witness ==
    /\ pc = "created"
    /\ last.platform.shcore
    /\ last.platform.hasGetDpi
    /\ ~last.platform.hasSetAwareness
    /\ ws.Win32Api.GetDpiForMonitor = "native"
    /\ ws.Win32Api.SetProcessDpiAwareness = "stub"
    /\ Cardinality(Declared(last.calls)) = 1

(* C31: WM_NCCREATE, which precedes WM_CREATE, stores the association and  *)
(* the handle and nothing else; a message that finds no association goes   *)
(* to the default handler with the window state untouched; and every run   *)
(* of a transition handler finds the association and the handle in place.  *)
TransitionMsgs ==
    {"WM_MOVE", "WM_SIZE", "WM_PAINT", "WM_ACTIVATE", "WM_SHOWWINDOW",
     "WM_DPICHANGED", "WM_SYSCOMMAND", "WM_CREATE", "WM_CLOSE"}

HandlerRan(e) == e.ops # <<>>

C31_AssociationBeforeHandlers ==
    /\ \A i \in DOMAIN last.hlog :
         /\ last.hlog[i].msg = "WM_NCCREATE" =>
              /\ last.hlog[i].after.assoc
              /\ last.hlog[i].post = [last.hlog[i].pre EXCEPT !.Win32Handle = 1]
              /\ ~HandlerRan(last.hlog[i])
         /\ (last.hlog[i].msg # "WM_NCCREATE" /\ ~last.hlog[i].win.assoc) =>
              /\ last.hlog[i].post = last.hlog[i].pre
              /\ last.hlog[i].after = last.hlog[i].win
              /\ ~HandlerRan(last.hlog[i])
         /\ last.hlog[i].msg \in TransitionMsgs =>
              /\ last.hlog[i].win.assoc
              /\ last.hlog[i].pre.Win32Handle # NULL
              /\ HandlerRan(last.hlog[i])
              /\ last.hlog[i].ops[1] = last.hlog[i].msg
    /\ (win.exists /\ pc # "nccreate") => win.assoc /\ ws.Win32Handle # NULL
    /\ pc \in {"create", "nccreate"} => ~win.assoc /\ ws.Win32Handle = NULL

(* WM_NCCREATE has just stored the association. *)
C31_Witness ==
    /\ last.msg = "WM_NCCREATE"
    /\ pc = "wmcreate"
    /\ ~last.hlog[1].win.assoc
    /\ win.assoc
    /\ ws.Win32Handle # NULL

(* A message delivered before the association exists. *)
C31_WitnessUnassociated ==
    /\ last.msg = "WM_GETMINMAXINFO"
    /\ ~win.assoc
    /\ last.hlog[1].post = last.hlog[1].pre

(***************************************************************************)
(* The initial geometry at full width.  A 32-bit word is the pair of its   *)
(* 16-bit halves, as above; a LONG or int32_t is the two's complement      *)
(* reading of the word.  Lines 776-783 mix LONG and uint32_t operands, so  *)
(* the subtraction of dim_x_px and the division by 2 are unsigned.         *)
(***************************************************************************)
Word(n) == [hi |-> (n \div Half) % Half, lo |-> n % Half]

AddU32(a, b) ==
    [hi |-> (a.hi + b.hi + (a.lo + b.lo) \div Half) % Half, lo |-> (a.lo + b.lo) % Half]

SubU32(a, b) ==
    [hi |-> (a.hi - b.hi - (IF a.lo < b.lo THEN 1 ELSE 0)) % Half,
     lo |-> (a.lo - b.lo) % Half]

ToI32(v) ==
    IF v.hi < Half \div 2 THEN v.hi * Half + v.lo ELSE (v.hi - Half) * Half + v.lo

(* One axis of lines 776-783: near/far are rc.left/rc.right (or top and    *)
(* bottom), dim the requested client dimension.                            *)
InitialAxis32(near, far, dim) ==
    LET extent  == SubU32(Word(far), Word(near))
        virtual == ToI32(AddU32(Word(near), DivU32(SubU32(extent, Word(dim)), 2)))
    IN  [virtual |-> virtual,
         dim     |-> IF ToI32(AddU32(Word(virtual), Word(dim))) > ToI32(extent)
                     THEN SubU32(extent, Word(virtual))
                     ELSE Word(dim)]

InitialGeometry32(rc) ==
    [x |-> InitialAxis32(rc.left, rc.right, InitialClientX),
     y |-> InitialAxis32(rc.top, rc.bottom, InitialClientY)]

(* Work areas of a primary display: an application bar may occupy the left *)
(* or the top edge, and the display may be smaller than the request.       *)
WorkAreas ==
    {Rect(l, t, l + w, t + h) :
        l \in {0, 60}, t \in {0, 40},
        w \in {640, 799, 800, 1024, 1920}, h \in {480, 600, 728, 1040}}

GeomInit ==
    /\ ws = InitialWindowState(ResolveApi(FALSE, FALSE, FALSE))
    /\ win = NoWindow
    /\ desk = [dpi |-> [m \in Monitors |-> USER_DEFAULT_SCREEN_DPI],
               sysDpi |-> USER_DEFAULT_SCREEN_DPI]
    /\ heap = EmptyHeap
    /\ hist = [allocFailed |-> FALSE, closed |-> FALSE, drainExit |-> "none",
               pending |-> NoSize,
               snapshot |-> NoSnapshot, msgs |-> 0, pre |-> NoRoundTrip]
    /\ pc = "geometry"
    /\ \E rc \in WorkAreas :
         last = [msg |-> "rcWork", rc |-> rc,
                 g |-> [x |-> [virtual |-> 0, dim |-> Word(0)],
                        y |-> [virtual |-> 0, dim |-> Word(0)]]]

Place ==
    /\ pc = "geometry"
    /\ pc' = "placed"
    /\ last' = [last EXCEPT !.msg = "placed", !.g = InitialGeometry32(last.rc)]
    /\ UNCHANGED <<ws, win, desk, heap, hist>>

GeomSpec == GeomInit /\ [][Place]_vars

(* C32, as claimed: for every work area the initial position and the       *)
(* clamped size describe a rectangle inside the work area (so no unsigned  *)
(* difference wrapped), and the position centres the 800x600 request when  *)
(* the work area can hold it.                                              *)
AxisInside(a, near, far) ==
    /\ a.dim.hi = 0
    /\ near <= a.virtual
    /\ a.virtual <= far
    /\ a.dim.lo <= far - a.virtual

C32_InitialGeometryInside ==
    last.msg = "placed" =>
        /\ AxisInside(last.g.x, last.rc.left, last.rc.right)
        /\ AxisInside(last.g.y, last.rc.top, last.rc.bottom)
        /\ RectW(last.rc) >= InitialClientX =>
               last.g.x.virtual = last.rc.left + (RectW(last.rc) - InitialClientX) \div 2
        /\ RectH(last.rc) >= InitialClientY =>
               last.g.y.virtual = last.rc.top + (RectH(last.rc) - InitialClientY) \div 2

(* What the code does: a work area at least as large as the request gets   *)
(* a rectangle inside it; a smaller one gets a position about 2^31 away.   *)
C32_GeometryWhenRequestFits ==
    last.msg = "placed" =>
        /\ RectW(last.rc) >= InitialClientX =>
               /\ AxisInside(last.g.x, last.rc.left, last.rc.right)
               /\ last.g.x.virtual =
                      last.rc.left + (RectW(last.rc) - InitialClientX) \div 2
        /\ RectH(last.rc) >= InitialClientY =>
               /\ AxisInside(last.g.y, last.rc.top, last.rc.bottom)
               /\ last.g.y.virtual =
                      last.rc.top + (RectH(last.rc) - InitialClientY) \div 2
        /\ RectW(last.rc) < InitialClientX =>
               last.g.x.virtual \notin last.rc.left .. last.rc.right
        /\ RectH(last.rc) < InitialClientY =>
               last.g.y.virtual \notin last.rc.top .. last.rc.bottom
        /\ last.rc = QueryMonitorGeometry(NULL).rcWork =>
               /\ last.g.x.virtual = ws.PositionX
               /\ last.g.y.virtual = ws.PositionY
               /\ last.g.x.dim = Word(ws.ClientSizeX)
               /\ last.g.y.dim = Word(ws.ClientSizeY)

(***************************************************************************)
(* ResizeBackBuffer on its own: a sequence of calls with requested sizes   *)
(* that include a zero width and a zero height, each with an allocation    *)
(* that succeeds or fails.                                                 *)
(***************************************************************************)
MaxResizes == 3
ResizeDims == {0, 1, 3, 800}

AllocInit ==
    /\ ws = InitialWindowState(ResolveApi(FALSE, FALSE, FALSE))
    /\ win = NoWindow
    /\ desk = [dpi |-> [m \in Monitors |-> USER_DEFAULT_SCREEN_DPI],
               sysDpi |-> USER_DEFAULT_SCREEN_DPI]
    /\ heap = EmptyHeap
    /\ hist = [allocFailed |-> FALSE, closed |-> FALSE, drainExit |-> "none",
               pending |-> NoSize,
               snapshot |-> NoSnapshot, msgs |-> 0, pre |-> NoRoundTrip]
    /\ pc = "resize"
    /\ last = NoStep

Resize ==
    /\ pc = "resize"
    /\ hist.msgs < MaxResizes
    /\ \E x \in ResizeDims, y \in ResizeDims, plan \in {<<>>, <<FALSE>>} :
       \E w \in {Call_ResizeBackBuffer(World(plan), x, y)} :
         /\ ws' = w.ws
         /\ heap' = w.heap
         /\ last' = [NoStep EXCEPT !.msg = "ResizeBackBuffer", !.trace = w.trace,
                                   !.calls = w.calls, !.ret = w.ret,
                                   !.failed = w.failed]
         /\ hist' = [hist EXCEPT !.msgs = @ + 1, !.allocFailed = @ \/ w.failed]
    /\ UNCHANGED <<win, desk, pc>>

AllocSpec == AllocInit /\ [][Resize]_vars

(* C33: the allocation behind an installed backbuffer has exactly          *)
(* BackBufferHeight * BackBufferStride = width * height * 4 bytes, and a   *)
(* request with a zero width or a zero height installs nothing.            *)
C33_WritableExtent ==
    /\ ws.BackBufferMemory # NULL =>
         /\ ws.BackBufferMemory \in Live(heap)
         /\ heap.size[ws.BackBufferMemory] = ws.BackBufferHeight * ws.BackBufferStride
         /\ heap.size[ws.BackBufferMemory] =
                ws.BackBufferWidth * ws.BackBufferHeight * 4
    /\ \A i \in DOMAIN last.calls :
         (last.calls[i].x = 0 \/ last.calls[i].y = 0) =>
             /\ last.calls[i].ret = -1
             /\ last.calls[i].post = last.calls[i].pre
             /\ "install" \notin Range(last.calls[i].ops)

(* A buffer is installed, and the last request, of zero height, left it. *)
C33_Witness ==
    /\ ws.BackBufferMemory # NULL
    /\ ws.BackBufferWidth = 3
    /\ heap.size[ws.BackBufferMemory] = 3 * 800 * 4
    /\ last.calls # <<>>
    /\ last.calls[1].x = 800
    /\ last.calls[1].y = 0
    /\ last.calls[1].ret = -1

(* C34, as claimed: whenever a backbuffer exists, the bitmap header handed *)
(* to the blit describes it: biWidth is BackBufferWidth, biHeight is       *)
(* -BackBufferHeight, 32 bits per pixel; a failed resize included.         *)
HeaderDescribes(s) ==
    /\ s.BackBufferInfo.biWidth = s.BackBufferWidth
    /\ s.BackBufferInfo.biHeight = -s.BackBufferHeight
    /\ s.BackBufferInfo.biBitCount = 32

C34_HeaderDescribesBuffer ==
    /\ ws.BackBufferMemory # NULL => HeaderDescribes(ws)
    /\ \A i \in DOMAIN last.blits :
           /\ last.blits[i].hdr.biWidth = last.blits[i].src_w
           /\ last.blits[i].hdr.biHeight = -last.blits[i].src_h

(* What the code keeps: the header describes the buffer as long as no      *)
(* allocation has failed.                                                  *)
C34_HeaderUnlessResizeFailed ==
    (ws.BackBufferMemory # NULL /\ ~hist.allocFailed) => HeaderDescribes(ws)

(* A present made with a header wider than the buffer it is given. *)
C34_StalePresent ==
    \E i \in DOMAIN last.blits :
        /\ last.blits[i].mem # NULL
        /\ last.blits[i].hdr.biWidth > last.blits[i].src_w

(* C35, as claimed: Active, Visible or Fullscreen is set only while        *)
(* Created is set; after a Close nothing sets a status flag again.         *)
C35_StatusOnlyWhileCreated ==
    /\ ws.StatusFlags # {} => STATUS_CREATED \in ws.StatusFlags
    /\ hist.closed => ws.StatusFlags = {}

(* What the code keeps: until a Close, a status flag implies Created. *)
C35_StatusOnlyWhileCreatedUntilClose ==
    (~hist.closed /\ ws.StatusFlags # {}) => STATUS_CREATED \in ws.StatusFlags

(* C36, as claimed: after every handler the Fullscreen status flag is set  *)
(* exactly when the window has the borderless popup style.                 *)
C36_FlagIffPopupStyle ==
    win.exists => ((STATUS_FULLSCREEN \in ws.StatusFlags) <=> (WS_POPUP \in win.style))

(* C36, amended: the flag and the style agree in every state in which the  *)
(* Created status flag is set, and after every handler that ran with       *)
(* Created set and is not Close; Close clears the flag of a window that    *)
(* keeps the popup style.                                                  *)
C36_FlagIffPopupStyleWhileCreated ==
    /\ (win.exists /\ STATUS_CREATED \in ws.StatusFlags) =>
           ((STATUS_FULLSCREEN \in ws.StatusFlags) <=> (WS_POPUP \in win.style))
    /\ \A i \in DOMAIN last.hlog :
           (/\ last.hlog[i].msg \in {"WM_DPICHANGED", "WM_SYSCOMMAND"}
            /\ STATUS_CREATED \in last.hlog[i].pre.StatusFlags) =>
               /\ (STATUS_FULLSCREEN \in last.hlog[i].pre.StatusFlags)
                      <=> (WS_POPUP \in last.hlog[i].win.style)
               /\ (STATUS_FULLSCREEN \in last.hlog[i].post.StatusFlags)
                      <=> (WS_POPUP \in last.hlog[i].after.style)

(* The DPI-changed handler has run on a fullscreen window. *)
C36_Witness ==
    /\ last.msg = "WM_DPICHANGED"
    /\ STATUS_CREATED \in ws.StatusFlags
    /\ STATUS_FULLSCREEN \in ws.StatusFlags
    /\ WS_POPUP \in win.style

(* The toggle has left fullscreen. *)
C36_WitnessLeft ==
    /\ last.msg = "WM_SYSCOMMAND"
    /\ hist.pre.toggles = 2
    /\ STATUS_CREATED \in ws.StatusFlags
    /\ STATUS_FULLSCREEN \notin ws.StatusFlags
    /\ WS_POPUP \notin win.style

(* C37, as claimed: a handler other than Close that changes the Visible    *)
(* status flag raises the matching event: Hidden when Visible goes from    *)
(* set to clear, Shown when it goes from clear to set.                     *)
VisibleCleared(e) ==
    STATUS_VISIBLE \in e.pre.StatusFlags /\ STATUS_VISIBLE \notin e.post.StatusFlags

VisibleSet(e) ==
    STATUS_VISIBLE \notin e.pre.StatusFlags /\ STATUS_VISIBLE \in e.post.StatusFlags

EdgeReported(e) ==
    /\ VisibleCleared(e) => EVENT_HIDDEN \in e.raised
    /\ VisibleSet(e) => EVENT_SHOWN \in e.raised

C37_VisibilityEdgesReported ==
    \A i \in DOMAIN last.hlog :
        last.hlog[i].msg # "WM_CLOSE" => EdgeReported(last.hlog[i])

(* What the code keeps: the Show/Hide handler reports every edge it makes, *)
(* and the Activate handler every edge to hidden.                          *)
C37_ShowHideEdgesReported ==
    /\ \A i \in Handled("WM_SHOWWINDOW") : EdgeReported(last.hlog[i])
    /\ \A i \in Handled("WM_ACTIVATE") :
           VisibleCleared(last.hlog[i]) => EVENT_HIDDEN \in last.hlog[i].raised

(* A Size notification that cleared Visible without raising Hidden. *)
C37_SilentHide ==
    \E i \in Handled("WM_SIZE") :
        /\ VisibleCleared(last.hlog[i])
        /\ last.hlog[i].raised = {}

(* A Size notification on a created window that set Visible without       *)
(* raising Shown.                                                          *)
C37_SilentShow ==
    \E i \in Handled("WM_SIZE") :
        /\ STATUS_CREATED \in last.hlog[i].pre.StatusFlags
        /\ VisibleSet(last.hlog[i])
        /\ last.hlog[i].raised = {}

====
